---- MODULE Spec2Model ----
(***************************************************************************)
(* Configuration revisioning and environment deployment of agenta-backend. *)
(* The document store is modelled as four collections (AppVariantDB,       *)
(* AppVariantRevisionsDB, AppEnvironmentDB, AppEnvironmentRevisionDB);     *)
(* every handler of routers/configs_router.py and every function of        *)
(* services/db_manager.py it reaches is one operator, named as in the      *)
(* source, whose value is the call's outcome: what it answers or raises    *)
(* and the collections as it leaves them.  An action applies one outcome.  *)
(* ConfigDB is an embedded document: a stored variant and a stored variant *)
(* revision each hold their own copy of it.                                *)
(***************************************************************************)
EXTENDS Integers, Sequences, FiniteSets, TLC

VARIABLES
    variants,               \* AppVariantDB documents
    variant_revisions,      \* AppVariantRevisionsDB documents
    environments,           \* AppEnvironmentDB documents
    environment_revisions,  \* AppEnvironmentRevisionDB documents
    save_requests,          \* save_config requests suspended at an await
    deploy_requests,        \* deploy_to_environment calls suspended at an await
    revert_requests,        \* revert_deployment_revision requests suspended at an await
    testsets,               \* TestSetDB documents, in the order the store lists them
    evaluation              \* the last call of evaluators_service.evaluate and its outcome

vars == <<variants, variant_revisions, environments, environment_revisions,
          save_requests, deploy_requests, revert_requests, testsets, evaluation>>

(***************************************************************************)
(* Bounds of the model                                                     *)
(***************************************************************************)
\* total number of AppVariantRevisionsDB documents the store may hold
MaxVariantRevisions == 3
\* total number of AppEnvironmentRevisionDB documents the store may hold
MaxDeploys == 2
\* number of save_config requests that may be in progress at once
MaxSaveRequests == 2
\* total number of TestSetDB documents the store may hold
MaxTestsets == 4
\* number of revert requests that may be in progress at once
MaxRevertRequests == 1

(***************************************************************************)
(* Values                                                                  *)
(***************************************************************************)
\* Python's None (an absent document, an empty Link)
None == <<>>

\* the application whose bases, variants and environments are modelled
AppId == "app1"

\* VariantBaseDB documents (create_new_variant_base): two bases of the app
bases ==
    { [id |-> "b1", app |-> AppId, base_name |-> "app"],
      [id |-> "b2", app |-> AppId, base_name |-> "chat"] }

BaseIds == {b.id : b \in bases}

\* base ids a request may carry: the existing ones and one naming no base
BaseIdInputs == BaseIds \cup {"b0"}

\* config names a request may carry
ConfigNames == {"default", "prod"}

\* the config name of the variant created together with a base
DefaultConfigName == "default"

\* parameter mappings a request may carry, as sets of <<key, value>> pairs;
\* {} is Python's empty dict
ParamValues == { {}, {<<"temperature", 5>>}, {<<"temperature", 9>>} }

\* the fixed environment names of an application
EnvironmentNames == {"development", "staging", "production"}

\* environment names a request may carry: the fixed ones and an unknown one
EnvironmentNameInputs == EnvironmentNames \cup {"qa"}

\* the environments that deploys are made to
DeployTargets == {"staging", "production"}

\* outcome of DeploymentDB.find_one for the app: its deployment or None
\* (deployments are created and removed outside the modelled handlers)
DeploymentInputs == {<<"dep1">>, None}

(***************************************************************************)
(* Fresh ObjectIds.  An id is only ever compared for equality; a new       *)
(* document gets an id that no stored document of its collection carries   *)
(* and that no stored document refers to.                                  *)
(***************************************************************************)
\* the variant ids in use: those of the stored variants and those the stored
\* revision ids (which embed their variant's id) refer to
VariantIdsInUse ==
    {v.id : v \in variants}
        \cup {r.variant : r \in variant_revisions}
        \cup {e.deployed_app_variant_revision[1] :
                 e \in {x \in environments : x.deployed_app_variant_revision # None}}
        \cup {r.deployed_app_variant_revision[1] :
                 r \in {x \in environment_revisions :
                            x.deployed_app_variant_revision # None}}

NewVariantId(base_id, config_name) ==
    <<base_id, config_name,
      Cardinality({id \in VariantIdsInUse :
                      id[1] = base_id /\ id[2] = config_name})>>

NewVariantRevisionId(variant_id, revision) ==
    <<variant_id, revision,
      Cardinality({r \in variant_revisions :
                      r.variant = variant_id /\ r.revision = revision})>>

NewEnvironmentRevisionId(environment_id, revision) ==
    <<environment_id, revision,
      Cardinality({r \in environment_revisions :
                      r.environment = environment_id /\ r.revision = revision})>>

\* Document.save(): replace the stored document of that id (insert if absent)
Save(collection, doc) == {d \in collection : d.id # doc.id} \cup {doc}

(***************************************************************************)
(* Reads of db_manager                                                     *)
(***************************************************************************)
fetch_app_variant_by_id(app_variant_id) ==
    IF \E v \in variants : v.id = app_variant_id
    THEN CHOOSE v \in variants : v.id = app_variant_id
    ELSE None

\* Fault: the revision number is left out of the query, and find_one answers
\* the variant's oldest revision document.
fetch_app_variant_revision_by_variant_oldest(app_variant_id, revision) ==
    LET found == {r \in variant_revisions : r.variant = app_variant_id}
    IN  IF found = {}
        THEN [raised |-> "Exception", value |-> None]
        ELSE [raised |-> "",
              value |-> CHOOSE r \in found :
                            \A x \in found : r.revision <= x.revision]

\* Fault: when no revision document carries the number, the variant's newest
\* one is answered.
fetch_app_variant_revision_by_variant_newest(app_variant_id, revision) ==
    LET found == {r \in variant_revisions :
                     r.variant = app_variant_id /\ r.revision = revision}
        any == {r \in variant_revisions : r.variant = app_variant_id}
    IN  IF found # {}
        THEN [raised |-> "", value |-> CHOOSE r \in found : TRUE]
        ELSE IF any = {}
        THEN [raised |-> "Exception", value |-> None]
        ELSE [raised |-> "",
              value |-> CHOOSE r \in any : \A x \in any : x.revision <= r.revision]

\* find_one on (variant.id, revision); raises when there is none
fetch_app_variant_revision_by_variant(app_variant_id, revision) ==
    LET found == {r \in variant_revisions :
                     r.variant = app_variant_id /\ r.revision = revision}
    IN  IF found = {}
        THEN [raised |-> "Exception", value |-> None]
        ELSE [raised |-> "", value |-> CHOOSE r \in found : TRUE]

fetch_app_variant_revision_by_id(variant_revision_id) ==
    IF \E r \in variant_revisions : r.id = variant_revision_id
    THEN CHOOSE r \in variant_revisions : r.id = variant_revision_id
    ELSE None

fetch_app_environment_revision(revision_id) ==
    IF \E r \in environment_revisions : r.id = revision_id
    THEN CHOOSE r \in environment_revisions : r.id = revision_id
    ELSE None

list_variants_for_base(base) == {v \in variants : v.base = base.id}

list_environments(app_id) == {e \in environments : e.app = app_id}

\* "we don't care which variant do we return": any variant of the base
find_previous_variant_from_base_id(base_id) ==
    LET previous_variants == {v \in variants : v.base = base_id}
    IN  IF previous_variants = {} THEN None
        ELSE CHOOSE v \in previous_variants : TRUE

\* access is the answer of check_user_org_access (an external collaborator)
fetch_base_and_check_access(base_id, access) ==
    IF ~ \E b \in bases : b.id = base_id
    THEN [status |-> "404", detail |-> "Base not found", base |-> None]
    ELSE IF ~ access
    THEN [status |-> "403", detail |-> "You do not have access to this base",
          base |-> None]
    ELSE [status |-> "ok", detail |-> "",
          base |-> CHOOSE b \in bases : b.id = base_id]

create_new_config(config_name, parameters) ==
    [config_name |-> config_name, parameters |-> parameters]

(***************************************************************************)
(* Application creation: the state after create_app_and_envs               *)
(***************************************************************************)
\* Fault: a new environment's counter starts at 1.
create_environment_counted_from_one(name, app_id) ==
    [id |-> <<app_id, name>>, app |-> app_id, name |-> name, revision |-> 1,
     deployed_app_variant |-> None, deployed_app_variant_revision |-> None,
     deployment |-> None]

create_environment(name, app_id) ==
    [id |-> <<app_id, name>>, app |-> app_id, name |-> name, revision |-> 0,
     deployed_app_variant |-> None, deployed_app_variant_revision |-> None,
     deployment |-> None]

initialize_environments(app_id) ==
    {create_environment(env_name, app_id) : env_name \in EnvironmentNames}

Init ==
    /\ variants = {}
    /\ variant_revisions = {}
    /\ environments = initialize_environments(AppId)
    /\ environment_revisions = {}
    /\ save_requests = {}
    /\ deploy_requests = {}
    /\ revert_requests = {}
    /\ testsets = <<>>
    /\ evaluation = None

(***************************************************************************)
(* create_new_app_variant: the variant created with a base, at revision 0  *)
(***************************************************************************)
\* Fault: the parameters are not asserted to be empty.
create_new_app_variant_unasserted(base, config_name, parameters) ==
    LET config == create_new_config(config_name, parameters)
        variant ==
            [id |-> NewVariantId(base.id, config_name),
             app |-> base.app, base |-> base.id,
             variant_name |-> base.base_name \o "." \o config_name,
             base_name |-> base.base_name,
             config_name |-> config_name,
             revision |-> 0,
             parameters |-> parameters,
             previous_variant_name |-> "",
             config |-> config]
        variant_revision ==
            [id |-> NewVariantRevisionId(variant.id, 0),
             variant |-> variant.id, revision |-> 0,
             base |-> base.id, config |-> config]
    IN  [raised |-> "",
         variants |-> variants \cup {variant},
         variant_revisions |-> variant_revisions \cup {variant_revision}]

\* Called with the config built by create_new_config from the same name and
\* parameters.
create_new_app_variant(base, config_name, parameters) ==
    IF parameters # {}
    THEN [raised |-> "AssertionError",
          variants |-> variants, variant_revisions |-> variant_revisions]
    ELSE LET config == create_new_config(config_name, parameters)
             variant ==
                 [id |-> NewVariantId(base.id, config_name),
                  app |-> base.app, base |-> base.id,
                  variant_name |-> base.base_name \o "." \o config_name,
                  base_name |-> base.base_name,
                  config_name |-> config_name,
                  revision |-> 0,
                  parameters |-> parameters,
                  previous_variant_name |-> "",   \* not set
                  config |-> config]
             variant_revision ==
                 [id |-> NewVariantRevisionId(variant.id, 0),
                  variant |-> variant.id, revision |-> 0,
                  base |-> base.id, config |-> config]
         IN  [raised |-> "",
              variants |-> variants \cup {variant},
              variant_revisions |-> variant_revisions \cup {variant_revision}]

(***************************************************************************)
(* save_config and the writes it reaches                                   *)
(***************************************************************************)
\* Fault: the new revision document is written but the variant document is
\* never saved, so the stored variant keeps its old revision and config.
update_variant_parameters_variant_not_saved(app_variant_db, parameters) ==
    LET config_db == [app_variant_db.config EXCEPT !.parameters = parameters]
        variant_revision ==
            [id |-> NewVariantRevisionId(app_variant_db.id, app_variant_db.revision + 1),
             variant |-> app_variant_db.id, revision |-> app_variant_db.revision + 1,
             base |-> app_variant_db.base, config |-> config_db]
    IN  [raised |-> "", detail |-> "",
         variants |-> variants,
         variant_revisions |-> Save(variant_revisions, variant_revision)]

\* Fault: the config is one shared document instead of an embedded copy, so
\* writing the new parameters rewrites them in every revision of the variant.
update_variant_parameters_shared_config(app_variant_db, parameters) ==
    LET config_db == [app_variant_db.config EXCEPT !.parameters = parameters]
        saved == [app_variant_db EXCEPT !.config = config_db,
                                        !.revision = app_variant_db.revision + 1]
        variant_revision ==
            [id |-> NewVariantRevisionId(saved.id, saved.revision),
             variant |-> saved.id, revision |-> saved.revision,
             base |-> saved.base, config |-> config_db]
        rewritten ==
            {IF r.variant = saved.id THEN [r EXCEPT !.config = config_db] ELSE r :
                r \in variant_revisions}
    IN  [raised |-> "", detail |-> "",
         variants |-> Save(variants, saved),
         variant_revisions |-> Save(rewritten, variant_revision)]

\* Fault: the revision document is built from the config as it was before
\* the new parameters were set.
update_variant_parameters_stale_snapshot(app_variant_db, parameters) ==
    LET config_db == [app_variant_db.config EXCEPT !.parameters = parameters]
        saved == [app_variant_db EXCEPT !.config = config_db,
                                        !.revision = app_variant_db.revision + 1]
        variant_revision ==
            [id |-> NewVariantRevisionId(saved.id, saved.revision),
             variant |-> saved.id, revision |-> saved.revision,
             base |-> saved.base, config |-> app_variant_db.config]
    IN  [raised |-> "", detail |-> "",
         variants |-> Save(variants, saved),
         variant_revisions |-> Save(variant_revisions, variant_revision)]

\* Fault: the revision document of the variant's previous revision is
\* rewritten instead of a new document being inserted.
update_variant_parameters_revision_rewritten(app_variant_db, parameters) ==
    LET config_db == [app_variant_db.config EXCEPT !.parameters = parameters]
        saved == [app_variant_db EXCEPT !.config = config_db,
                                        !.revision = app_variant_db.revision + 1]
        previous == {r \in variant_revisions :
                        r.variant = saved.id /\ r.revision = app_variant_db.revision}
        variant_revision ==
            [id |-> IF previous = {}
                    THEN NewVariantRevisionId(saved.id, saved.revision)
                    ELSE (CHOOSE r \in previous : TRUE).id,
             variant |-> saved.id, revision |-> saved.revision,
             base |-> saved.base, config |-> config_db]
    IN  [raised |-> "", detail |-> "",
         variants |-> Save(variants, saved),
         variant_revisions |-> Save(variant_revisions, variant_revision)]

\* db_manager.update_variant_parameters: the in-place update.  The variant
\* document is saved first, the new revision document second; the revision
\* embeds its own copy of the config.
update_variant_parameters(app_variant_db, parameters) ==
    LET config_db == [app_variant_db.config EXCEPT !.parameters = parameters]
        saved == [app_variant_db EXCEPT !.config = config_db,
                                        !.revision = app_variant_db.revision + 1]
        variant_revision ==
            [id |-> NewVariantRevisionId(saved.id, saved.revision),
             variant |-> saved.id, revision |-> saved.revision,
             base |-> saved.base, config |-> config_db]
    IN  [raised |-> "", detail |-> "",
         variants |-> Save(variants, saved),
         variant_revisions |-> Save(variant_revisions, variant_revision)]

\* app_manager.update_variant_parameters: resolves the id to the stored
\* variant and hands it to db_manager.update_variant_parameters.
app_manager_update_variant_parameters(app_variant_id, parameters) ==
    LET app_variant_db == fetch_app_variant_by_id(app_variant_id)
    IN  IF app_variant_db = None
        THEN [raised |-> "ValueError", detail |-> "Failed to find app variant",
              variants |-> variants, variant_revisions |-> variant_revisions]
        ELSE update_variant_parameters(app_variant_db, parameters)

\* Fault: the first revision document of a new variant is numbered 0, as
\* create_new_app_variant numbers it, while the variant starts at 1.
add_variant_from_base_and_config_revision_zero(base_db, new_config_name, parameters) ==
    LET previous_app_variant_db == find_previous_variant_from_base_id(base_db.id)
        config_db == [config_name |-> new_config_name, parameters |-> parameters]
        db_app_variant ==
            [id |-> NewVariantId(base_db.id, new_config_name),
             app |-> base_db.app,
             base |-> base_db.id,
             variant_name |-> base_db.base_name \o "." \o new_config_name,
             base_name |-> base_db.base_name,
             config_name |-> new_config_name,
             revision |-> 1,
             parameters |-> parameters,
             previous_variant_name |-> base_db.base_name,
             config |-> config_db]
        variant_revision ==
            [id |-> NewVariantRevisionId(db_app_variant.id, 0),
             variant |-> db_app_variant.id, revision |-> 0,
             base |-> base_db.id, config |-> config_db]
    IN  IF previous_app_variant_db = None
        THEN [raised |-> "HTTPException", detail |-> "Previous app variant not found",
              variants |-> variants, variant_revisions |-> variant_revisions]
        ELSE [raised |-> "", detail |-> "",
              variants |-> variants \cup {db_app_variant},
              variant_revisions |-> variant_revisions \cup {variant_revision}]

\* The AppVariantDB document add_variant_from_base_and_config builds
NewAppVariant(base_db, previous_app_variant_db, new_config_name, parameters) ==
    [id |-> NewVariantId(base_db.id, new_config_name),
     app |-> previous_app_variant_db.app,
     base |-> base_db.id,
     variant_name |-> base_db.base_name \o "." \o new_config_name,
     base_name |-> base_db.base_name,
     config_name |-> new_config_name,
     revision |-> 1,
     parameters |-> parameters,
     previous_variant_name |-> previous_app_variant_db.variant_name,
     config |-> [config_name |-> new_config_name, parameters |-> parameters]]

\* The AppVariantRevisionsDB document it builds for the created variant
FirstVariantRevision(db_app_variant, base_db) ==
    [id |-> NewVariantRevisionId(db_app_variant.id, 1),
     variant |-> db_app_variant.id, revision |-> 1,
     base |-> base_db.id, config |-> db_app_variant.config]

\* db_manager.add_variant_from_base_and_config: a new variant at revision 1
add_variant_from_base_and_config(base_db, new_config_name, parameters) ==
    LET previous_app_variant_db == find_previous_variant_from_base_id(base_db.id)
        app_variant_for_base == list_variants_for_base(base_db)
        already_exists ==
            \E av \in app_variant_for_base : av.config_name = new_config_name
        unchanged(raised, detail) ==
            [raised |-> raised, detail |-> detail,
             variants |-> variants, variant_revisions |-> variant_revisions]
    IN  IF previous_app_variant_db = None
        THEN unchanged("HTTPException", "Previous app variant not found")
        ELSE IF already_exists
        THEN unchanged("ValueError", "App variant with the same name already exists")
        ELSE
            LET db_app_variant ==
                    NewAppVariant(base_db, previous_app_variant_db,
                                  new_config_name, parameters)
                variant_revision == FirstVariantRevision(db_app_variant, base_db)
            IN  [raised |-> "", detail |-> "",
                 variants |-> variants \cup {db_app_variant},
                 variant_revisions |-> variant_revisions \cup {variant_revision}]

ConfigNameExists ==
    "Config name already exists. Please use a different name or set overwrite to True."

\* What the router answers for the outcome of a db call made inside its
\* try block: an HTTPException is re-raised as it is (here always a 500),
\* any other exception becomes a 500 carrying its message.
SaveConfigAnswer(result) ==
    [status |-> IF result.raised = "" THEN "200" ELSE "500",
     detail |-> result.detail,
     variants |-> result.variants,
     variant_revisions |-> result.variant_revisions]

\* Fault: an existing config name is always overwritten.
MayOverwrite_always(overwrite, variant_to_overwrite) == TRUE

\* Fault: empty parameters allow the update only of a variant never saved to.
MayOverwrite_only_fresh(overwrite, variant_to_overwrite) ==
    overwrite \/ (variant_to_overwrite.config.parameters = {}
                     /\ variant_to_overwrite.revision = 0)

\* The router's test for the in-place update of an existing variant
MayOverwrite(overwrite, variant_to_overwrite) ==
    overwrite \/ variant_to_overwrite.config.parameters = {}

\* routers/configs_router.save_config.  variants_db is sorted by variant_name
\* and the first variant carrying the config name is taken.
save_config(base_id, config_name, parameters, overwrite, access) ==
    LET checked == fetch_base_and_check_access(base_id, access)
        refused(status, detail) ==
            [status |-> status, detail |-> detail,
             variants |-> variants, variant_revisions |-> variant_revisions]
    IN  IF checked.status # "ok"
        THEN refused(checked.status, checked.detail)
        ELSE
         LET base_db == checked.base
             variants_db == list_variants_for_base(base_db)
             matching == {v \in variants_db : v.config_name = config_name}
         IN  IF matching # {}
             THEN LET variant_to_overwrite == CHOOSE v \in matching : TRUE
                  IN  IF MayOverwrite(overwrite, variant_to_overwrite)
                      THEN SaveConfigAnswer(
                               app_manager_update_variant_parameters(
                                   variant_to_overwrite.id, parameters))
                      ELSE refused("200", ConfigNameExists)
             ELSE SaveConfigAnswer(
                      add_variant_from_base_and_config(base_db, config_name, parameters))

(***************************************************************************)
(* deploy                                                                  *)
(***************************************************************************)
\* Fault: the keyword arguments are not copied into the new document, which
\* keeps the defaults (no deployed revision, no deployment).
create_environment_revision_without_target(environment, deployed_app_variant_revision, deployment) ==
    environment_revisions \cup
        { [id |-> NewEnvironmentRevisionId(environment.id, environment.revision),
           environment |-> environment.id,
           revision |-> environment.revision,
           deployed_app_variant_revision |-> None,
           deployment |-> None] }

\* Fault: the new document is numbered with the counter as the store holds
\* it, before the increment made in memory.
create_environment_revision_stored_counter(environment, deployed_app_variant_revision, deployment) ==
    environment_revisions \cup
        { [id |-> NewEnvironmentRevisionId(environment.id, environment.revision - 1),
           environment |-> environment.id,
           revision |-> environment.revision - 1,
           deployed_app_variant_revision |-> deployed_app_variant_revision,
           deployment |-> deployment] }

\* The new AppEnvironmentRevisionDB document takes its revision number from
\* the (already incremented, not yet saved) environment object.
create_environment_revision(environment, deployed_app_variant_revision, deployment) ==
    environment_revisions \cup
        { [id |-> NewEnvironmentRevisionId(environment.id, environment.revision),
           environment |-> environment.id,
           revision |-> environment.revision,
           deployed_app_variant_revision |-> deployed_app_variant_revision,
           deployment |-> deployment] }

\* The environment object as deploy_to_environment rewrites it in memory
DeployedEnvironment(environment_db, app_variant_db, app_variant_revision_db, deployment) ==
    [environment_db EXCEPT
        !.revision = environment_db.revision + 1,
        !.deployed_app_variant = app_variant_db.id,
        !.deployed_app_variant_revision = app_variant_revision_db.id,
        !.deployment = deployment]

\* Fault: the environment's name is not part of the query.
find_environment_any_of_app(app_id, environment_name) ==
    LET found == {e \in environments : e.app = app_id}
    IN  IF found = {} THEN None ELSE CHOOSE e \in found : TRUE

\* AppEnvironmentDB.find_one by app and name
find_environment(app_id, environment_name) ==
    LET found == {e \in environments :
                     e.app = app_id /\ e.name = environment_name}
    IN  IF found = {} THEN None ELSE CHOOSE e \in found : TRUE

\* db_manager.deploy_to_environment; deployment is what
\* get_deployment_by_appid finds for the variant's app
deploy_to_environment(environment_name, variant_id, deployment) ==
    LET app_variant_db == fetch_app_variant_by_id(variant_id)
        raise(exception) ==
            [raised |-> exception, environments |-> environments,
             environment_revisions |-> environment_revisions]
    IN  IF app_variant_db = None
        THEN raise("AttributeError")   \* .revision is read before the None test
        ELSE
         LET fetched == fetch_app_variant_revision_by_variant(
                            variant_id, app_variant_db.revision)
             environment_db == find_environment(app_variant_db.app, environment_name)
         IN  IF fetched.raised # "" THEN raise(fetched.raised)
             ELSE IF environment_db = None THEN raise("ValueError")
             ELSE IF deployment = None THEN raise("AttributeError")
             ELSE LET updated == DeployedEnvironment(
                                     environment_db, app_variant_db,
                                     fetched.value, deployment)
                  IN  [raised |-> "",
                       environment_revisions |->
                           create_environment_revision(
                               updated, fetched.value.id, deployment),
                       environments |-> Save(environments, updated)]

(***************************************************************************)
(* revert                                                                  *)
(***************************************************************************)
\* Fault: the revert counts as a deployment and increments the counter.
update_app_environment_deployed_variant_revision_counted(app_environment, deployed_variant_revision) ==
    LET app_variant_revision == fetch_app_variant_revision_by_id(deployed_variant_revision)
    IN  IF app_variant_revision = None
        THEN [raised |-> "Exception", environments |-> environments]
        ELSE [raised |-> "",
              environments |->
                  Save(environments,
                       [app_environment EXCEPT
                           !.revision = app_environment.revision + 1,
                           !.deployed_app_variant_revision = app_variant_revision.id])]

\* Fault: the pointer is set on the environment object, which is never saved.
update_app_environment_deployed_variant_revision_not_saved(app_environment, deployed_variant_revision) ==
    LET app_variant_revision == fetch_app_variant_revision_by_id(deployed_variant_revision)
    IN  IF app_variant_revision = None
        THEN [raised |-> "Exception", environments |-> environments]
        ELSE [raised |-> "", environments |-> environments]

\* db_manager.update_app_environment_deployed_variant_revision: the pointer
\* is set on the environment object and the whole document saved
\* Fault: the variant revision is not looked up before it is pointed to.
update_app_environment_deployed_variant_revision_unverified(app_environment, deployed_variant_revision) ==
    [raised |-> "",
     environments |->
         Save(environments,
              [app_environment EXCEPT
                  !.deployed_app_variant_revision = deployed_variant_revision])]

update_app_environment_deployed_variant_revision(app_environment, deployed_variant_revision) ==
    LET app_variant_revision == fetch_app_variant_revision_by_id(deployed_variant_revision)
    IN  IF app_variant_revision = None
        THEN [raised |-> "Exception", environments |-> environments]
        ELSE [raised |-> "",
              environments |->
                  Save(environments,
                       [app_environment EXCEPT
                           !.deployed_app_variant_revision = app_variant_revision.id])]

RevertDone == "Environment was reverted to deployment revision successful"

\* Fault: the record's deployed variant revision is not tested before it is
\* handed on.
reverted_to_unchecked(environment_revision) ==
    LET answer(status, detail, envs) ==
            [status |-> status, detail |-> detail, environments |-> envs]
    IN  IF environment_revision = None
        THEN answer("404", "No environment revision found", environments)
        ELSE LET app_environment ==
                     CHOOSE e \in environments : e.id = environment_revision.environment
                 result == update_app_environment_deployed_variant_revision(
                               app_environment,
                               environment_revision.deployed_app_variant_revision)
             IN  IF result.raised = ""
                 THEN answer("200", RevertDone, result.environments)
                 ELSE answer("500", result.raised, result.environments)

\* revert_deployment_revision from the fetched AppEnvironmentRevisionDB
\* document (or None) on; the document's environment link is fetched with it
reverted_to(environment_revision) ==
    LET answer(status, detail, envs) ==
            [status |-> status, detail |-> detail, environments |-> envs]
    IN  IF environment_revision = None
        THEN answer("404", "No environment revision found", environments)
        ELSE IF environment_revision.deployed_app_variant_revision = None
        THEN answer("404", "No deployed app variant found", environments)
        ELSE LET app_environment ==
                     CHOOSE e \in environments : e.id = environment_revision.environment
                 result == update_app_environment_deployed_variant_revision(
                               app_environment,
                               environment_revision.deployed_app_variant_revision)
             IN  IF result.raised = ""
                 THEN answer("200", RevertDone, result.environments)
                 ELSE answer("500", result.raised, result.environments)

\* routers/configs_router.revert_deployment_revision
revert_deployment_revision(deployment_revision_id) ==
    reverted_to(fetch_app_environment_revision(deployment_revision_id))

(***************************************************************************)
(* get_config                                                              *)
(***************************************************************************)
\* Fault: the config answered is the current one of the variant the
\* revision belongs to.
EnvironmentConfig_current(found_variant_revision) ==
    fetch_app_variant_by_id(found_variant_revision.variant).config

\* The config answered for an environment: the one embedded in the variant
\* revision the environment points to
EnvironmentConfig(found_variant_revision) == found_variant_revision.config

\* Fault: the base of the deployed revision is not compared with the request's.
ServesBase_any(found_variant_revision, base_id) == TRUE

\* The router's test that the revision an environment points to belongs to
\* the requested base
ServesBase(found_variant_revision, base_id) ==
    found_variant_revision.base = base_id

\* Fault: for a variant some environment deploys, the config answered is the
\* one of the revision that environment points to.
VariantConfig_deployed(found_variant) ==
    LET deploying == {e \in environments :
                         /\ e.deployed_app_variant = found_variant.id
                         /\ fetch_app_variant_revision_by_id(
                                e.deployed_app_variant_revision) # None}
    IN  IF deploying = {} THEN found_variant.config
        ELSE fetch_app_variant_revision_by_id(
                 (CHOOSE e \in deploying : TRUE).deployed_app_variant_revision).config

\* The config answered for a config name: the one the variant document holds
VariantConfig(found_variant) == found_variant.config

\* routers/configs_router.get_config; config_name and environment_name are
\* Optional and tested for truthiness: "" stands for an absent (or empty) one
get_config(base_id, config_name, environment_name, access) ==
    LET checked == fetch_base_and_check_access(base_id, access)
        answer(status, detail, config) ==
            [status |-> status, detail |-> detail, config |-> config]
    IN  IF checked.status # "ok"
        THEN answer(checked.status, checked.detail, None)
        ELSE IF environment_name # ""
        THEN LET app_environments == list_environments(checked.base.app)
                 named == {e \in app_environments : e.name = environment_name}
             IN  IF named = {}
                 THEN \* found_variant_revision is never bound
                      answer("500", "UnboundLocalError", None)
                 ELSE LET app_environment == CHOOSE e \in named : TRUE
                          found_variant_revision ==
                              fetch_app_variant_revision_by_id(
                                  app_environment.deployed_app_variant_revision)
                      IN  IF found_variant_revision = None
                          THEN answer("400", "Environment name not found for base", None)
                          ELSE IF ~ ServesBase(found_variant_revision, base_id)
                          THEN answer("400", "Environment does not deploy base", None)
                          ELSE answer("200", "", EnvironmentConfig(found_variant_revision))
        ELSE IF config_name # ""
        THEN LET variants_db == list_variants_for_base(checked.base)
                 matching == {v \in variants_db : v.config_name = config_name}
             IN  IF matching = {}
                 THEN answer("400", "Config name not found for base", None)
                 ELSE answer("200", "", VariantConfig(CHOOSE v \in matching : TRUE))
        ELSE \* config is never bound
             answer("500", "UnboundLocalError", None)

(***************************************************************************)
(* get_config_deployment_revision                                          *)
(***************************************************************************)
\* Fault: current_version is the environment's counter as it is now.
get_config_deployment_revision_live_counter(deployment_revision_id) ==
    LET environment_revision == fetch_app_environment_revision(deployment_revision_id)
        answer(status, detail, body) ==
            [status |-> status, detail |-> detail, body |-> body]
    IN  IF environment_revision = None
        THEN answer("404", "No environment revision found", None)
        ELSE IF environment_revision.deployed_app_variant_revision = None
        THEN answer("500", "InvalidId", None)
        ELSE LET variant_revision ==
                     fetch_app_variant_revision_by_id(
                         environment_revision.deployed_app_variant_revision)
                 environment ==
                     CHOOSE e \in environments : e.id = environment_revision.environment
             IN  IF variant_revision = None
                 THEN answer("404", "No configuration found for deployment revision", None)
                 ELSE answer("200", "",
                             [config_name |-> variant_revision.config.config_name,
                              parameters |-> variant_revision.config.parameters,
                              current_version |-> environment.revision])

\* routers/configs_router.get_config_deployment_revision.  The record's
\* deployed variant revision is turned into a string and that into an
\* ObjectId, which raises for a record holding none.
get_config_deployment_revision(deployment_revision_id) ==
    LET environment_revision == fetch_app_environment_revision(deployment_revision_id)
        answer(status, detail, body) ==
            [status |-> status, detail |-> detail, body |-> body]
    IN  IF environment_revision = None
        THEN answer("404", "No environment revision found", None)
        ELSE IF environment_revision.deployed_app_variant_revision = None
        THEN answer("500", "InvalidId", None)
        ELSE LET variant_revision ==
                     fetch_app_variant_revision_by_id(
                         environment_revision.deployed_app_variant_revision)
             IN  IF variant_revision = None
                 THEN answer("404", "No configuration found for deployment revision", None)
                 ELSE answer("200", "",
                             [config_name |-> variant_revision.config.config_name,
                              parameters |-> variant_revision.config.parameters,
                              current_version |-> environment_revision.revision])

(***************************************************************************)
(* Removal of a variant                                                    *)
(***************************************************************************)
\* the environments of the variant's app, whatever they deploy
list_environments_by_variant(app_variant) ==
    {e \in environments : e.app = app_variant.app}

list_app_variant_revisions_by_variant(app_variant) ==
    {r \in variant_revisions : r.variant = app_variant.id}

\* db_manager.remove_app_variant_from_db: deployed_app_variant is cleared in
\* the listed environments (deployed_app_variant_revision is left as it is),
\* then the variant's revision documents and the variant are deleted
remove_app_variant_from_db(app_variant_db) ==
    [environments |->
         {IF e \in list_environments_by_variant(app_variant_db)
          THEN [e EXCEPT !.deployed_app_variant = None] ELSE e : e \in environments},
     variant_revisions |->
         variant_revisions \ list_app_variant_revisions_by_variant(app_variant_db),
     variants |-> {v \in variants : v.id # app_variant_db.id}]

(***************************************************************************)
(* The specification: handlers run one at a time, each to completion       *)
(***************************************************************************)
\* variant ids a request may carry; an id no stored variant has is unknown
VariantIdInputs == {<<b, c, 0>> : b \in BaseIds, c \in ConfigNames}

\* environment revision ids a request may carry; an id no stored
\* environment revision has is unknown
EnvironmentRevisionIdInputs ==
    {<<<<AppId, n>>, k, 0>> : n \in EnvironmentNames, k \in 1..(MaxDeploys + 1)}

\* save_config requests
SaveConfigInputs ==
    [base_id : BaseIdInputs, config_name : ConfigNames, parameters : ParamValues,
     overwrite : BOOLEAN, access : BOOLEAN]

\* the requests that are sent: every request of a user with access to an
\* existing base, and one request each for the refusals that do not depend
\* on the payload (no access, no such base)
SaveConfigRequests ==
    {r \in SaveConfigInputs :
        \/ r.access /\ r.base_id \in BaseIds
        \/ r.config_name = DefaultConfigName /\ r.parameters = {} /\ ~ r.overwrite
           /\ (r.access <=> r.base_id \notin BaseIds)}

\* deploy_to_environment calls
DeployInputs ==
    [environment_name : EnvironmentNameInputs, variant_id : VariantIdInputs,
     deployment : DeploymentInputs]

\* the calls that are made: to two of the environments with the app's
\* deployment in place, and for every variant one call each naming an
\* unknown environment and finding no deployment
DeployRequests ==
    {r \in DeployInputs :
        \/ r.environment_name \in DeployTargets /\ r.deployment # None
        \/ r.environment_name = "qa" /\ r.deployment # None
        \/ r.environment_name = "production" /\ r.deployment = None}

\* revert requests that are sent: for the environment revisions of the
\* environments deployed to
RevertRequests ==
    {id \in EnvironmentRevisionIdInputs :
        id[1][2] \in DeployTargets /\ id[2] <= MaxDeploys}

\* the variant revision ids in use: stored, or referred to by an environment
\* or by an environment revision
VariantRevisionIdsInUse ==
    {r.id : r \in variant_revisions}
        \cup {e.deployed_app_variant_revision :
                 e \in {x \in environments : x.deployed_app_variant_revision # None}}
        \cup {r.deployed_app_variant_revision :
                 r \in {x \in environment_revisions :
                            x.deployed_app_variant_revision # None}}

WithinBounds ==
    /\ Cardinality(VariantRevisionIdsInUse) <= MaxVariantRevisions
    /\ Cardinality(environment_revisions) <= MaxDeploys

\* The base variant is created once per base, right after the base.
CreateBaseVariant ==
    \E base \in bases, parameters \in ParamValues :
        LET outcome == create_new_app_variant(base, DefaultConfigName, parameters)
        IN  /\ list_variants_for_base(base) = {}
            /\ variants' = outcome.variants
            /\ variant_revisions' = outcome.variant_revisions
            /\ UNCHANGED <<environments, environment_revisions,
                           save_requests, deploy_requests,
                           testsets, evaluation, revert_requests>>
            /\ WithinBounds'

SaveConfig ==
    \E r \in SaveConfigRequests :
        LET outcome == save_config(r.base_id, r.config_name, r.parameters,
                                   r.overwrite, r.access)
        IN  /\ variants' = outcome.variants
            /\ variant_revisions' = outcome.variant_revisions
            /\ UNCHANGED <<environments, environment_revisions,
                           save_requests, deploy_requests,
                           testsets, evaluation, revert_requests>>
            /\ WithinBounds'

Deploy ==
    \E r \in DeployRequests :
        LET outcome == deploy_to_environment(r.environment_name, r.variant_id,
                                             r.deployment)
        IN  /\ environments' = outcome.environments
            /\ environment_revisions' = outcome.environment_revisions
            /\ UNCHANGED <<variants, variant_revisions,
                           save_requests, deploy_requests,
                           testsets, evaluation, revert_requests>>
            /\ WithinBounds'

Revert ==
    \E deployment_revision_id \in RevertRequests :
        LET outcome == revert_deployment_revision(deployment_revision_id)
        IN  /\ environments' = outcome.environments
            /\ UNCHANGED <<variants, variant_revisions, environment_revisions,
                           save_requests, deploy_requests,
                           testsets, evaluation, revert_requests>>

Next == CreateBaseVariant \/ SaveConfig \/ Deploy \/ Revert

Spec == Init /\ [][Next]_vars

\* The same handlers, with variants also being removed
RemoveVariant ==
    \E app_variant_db \in variants :
        LET outcome == remove_app_variant_from_db(app_variant_db)
        IN  /\ variants' = outcome.variants
            /\ variant_revisions' = outcome.variant_revisions
            /\ environments' = outcome.environments
            /\ UNCHANGED <<environment_revisions,
                           save_requests, deploy_requests,
                           testsets, evaluation, revert_requests>>

NextWithRemoval == Next \/ RemoveVariant

SpecWithRemoval == Init /\ [][NextWithRemoval]_vars

(***************************************************************************)
(* Interleaved saves.  save_config is a coroutine: every await on the      *)
(* store is a point where another request may run.  There is no            *)
(* transaction around a handler's reads and writes.  A request suspended   *)
(* at an await is a record of save_requests holding the handler's local    *)
(* variables; pc names the store call it makes next.                       *)
(***************************************************************************)
BaseOf(base_id) == CHOOSE b \in bases : b.id = base_id

\* the lowest request slot not in use
FreeSlot ==
    CHOOSE s \in 1..MaxSaveRequests :
        /\ \A q \in save_requests : q.slot # s
        /\ \A t \in 1..(s - 1) : \E q \in save_requests : q.slot = t

\* every request in progress will write one revision document
RoomForRequest ==
    /\ Cardinality(save_requests) < MaxSaveRequests
    /\ Cardinality(variant_revisions) + Cardinality(save_requests)
           < MaxVariantRevisions

\* request q goes on as next, suspended at its next await
Suspend(q, next) == (save_requests \ {q}) \cup {next}

\* the requests sent while saves interleave: those of one user with access,
\* saving parameters to the configs of one base with overwrite set
InterleavedSaveConfigRequests ==
    {r \in SaveConfigRequests :
        r.access /\ r.base_id = "b1" /\ r.overwrite /\ r.parameters # {}}

\* The router up to its decision: the base is fetched, its variants listed
\* and the one carrying the config name looked for.  A request that is
\* refused writes nothing and is not kept.
BeginSaveConfig ==
    \E r \in InterleavedSaveConfigRequests :
        LET checked == fetch_base_and_check_access(r.base_id, r.access)
            matching == {v \in list_variants_for_base(checked.base) :
                            v.config_name = r.config_name}
            request(pc, app_variant_db) ==
                [slot |-> FreeSlot, base_id |-> r.base_id,
                 config_name |-> r.config_name, parameters |-> r.parameters,
                 pc |-> pc, app_variant_db |-> app_variant_db,
                 previous_app_variant_db |-> None]
        IN  /\ RoomForRequest
            /\ checked.status = "ok"
            /\ IF matching # {}
               THEN LET variant_to_overwrite == CHOOSE v \in matching : TRUE
                    IN  /\ MayOverwrite(r.overwrite, variant_to_overwrite)
                        /\ save_requests' = save_requests \cup
                               {request("fetch_app_variant_by_id", variant_to_overwrite)}
               ELSE save_requests' = save_requests \cup
                        {request("find_previous_variant_from_base_id", None)}
            /\ UNCHANGED <<variants, variant_revisions, environments,
                           environment_revisions, deploy_requests,
                           testsets, evaluation, revert_requests>>

\* app_manager.update_variant_parameters fetches the variant by its id
FetchVariant ==
    \E q \in save_requests :
        LET app_variant_db == fetch_app_variant_by_id(q.app_variant_db.id)
        IN  /\ q.pc = "fetch_app_variant_by_id"
            /\ save_requests' =
                   IF app_variant_db = None THEN save_requests \ {q}
                   ELSE Suspend(q, [q EXCEPT !.app_variant_db = app_variant_db,
                                             !.pc = "app_variant_db.save"])
            /\ UNCHANGED <<variants, variant_revisions, environments,
                           environment_revisions, deploy_requests,
                           testsets, evaluation, revert_requests>>

\* update_variant_parameters: the first write, of the variant as fetched
\* with its revision number increased and the new parameters
SaveVariant ==
    \E q \in save_requests :
        /\ q.pc = "app_variant_db.save"
        /\ variants' = update_variant_parameters(q.app_variant_db, q.parameters).variants
        /\ save_requests' = Suspend(q, [q EXCEPT !.pc = "variant_revision.save"])
        /\ UNCHANGED <<variant_revisions, environments,
                           environment_revisions, deploy_requests,
                           testsets, evaluation, revert_requests>>

\* update_variant_parameters: the second write, of the revision document
SaveVariantRevision ==
    \E q \in save_requests :
        /\ q.pc = "variant_revision.save"
        /\ variant_revisions' =
               update_variant_parameters(q.app_variant_db, q.parameters).variant_revisions
        /\ save_requests' = save_requests \ {q}
        /\ UNCHANGED <<variants, environments,
                           environment_revisions, deploy_requests,
                           testsets, evaluation, revert_requests>>

\* add_variant_from_base_and_config: the read of a previous variant
FindPreviousVariant ==
    \E q \in save_requests :
        LET previous_app_variant_db == find_previous_variant_from_base_id(q.base_id)
        IN  /\ q.pc = "find_previous_variant_from_base_id"
            /\ save_requests' =
                   IF previous_app_variant_db = None THEN save_requests \ {q}
                   ELSE Suspend(q, [q EXCEPT !.previous_app_variant_db =
                                                 previous_app_variant_db,
                                             !.pc = "list_variants_for_base"])
            /\ UNCHANGED <<variants, variant_revisions, environments,
                           environment_revisions, deploy_requests,
                           testsets, evaluation, revert_requests>>

\* add_variant_from_base_and_config: the base's variants are listed and the
\* request ends with a ValueError if one carries the config name
CheckConfigName ==
    \E q \in save_requests :
        LET already_exists ==
                \E av \in list_variants_for_base(BaseOf(q.base_id)) :
                    av.config_name = q.config_name
        IN  /\ q.pc = "list_variants_for_base"
            /\ save_requests' =
                   IF already_exists THEN save_requests \ {q}
                   ELSE Suspend(q, [q EXCEPT !.pc = "db_app_variant.create"])
            /\ UNCHANGED <<variants, variant_revisions, environments,
                           environment_revisions, deploy_requests,
                           testsets, evaluation, revert_requests>>

\* add_variant_from_base_and_config: the variant document is inserted
CreateVariant ==
    \E q \in save_requests :
        LET db_app_variant ==
                NewAppVariant(BaseOf(q.base_id), q.previous_app_variant_db,
                              q.config_name, q.parameters)
        IN  /\ q.pc = "db_app_variant.create"
            /\ variants' = variants \cup {db_app_variant}
            /\ save_requests' =
                   Suspend(q, [q EXCEPT !.app_variant_db = db_app_variant,
                                        !.pc = "variant_revision.create"])
            /\ UNCHANGED <<variant_revisions, environments,
                           environment_revisions, deploy_requests,
                           testsets, evaluation, revert_requests>>

\* add_variant_from_base_and_config: its first revision document is inserted
CreateVariantRevision ==
    \E q \in save_requests :
        /\ q.pc = "variant_revision.create"
        /\ variant_revisions' = variant_revisions \cup
               {FirstVariantRevision(q.app_variant_db, BaseOf(q.base_id))}
        /\ save_requests' = save_requests \ {q}
        /\ UNCHANGED <<variants, environments,
                           environment_revisions, deploy_requests,
                           testsets, evaluation, revert_requests>>

\* The base variant is created with its base, before any save_config.
CreateBaseVariantFirst ==
    /\ save_requests = {}
    /\ Cardinality(variant_revisions) < MaxVariantRevisions - 1
    /\ CreateBaseVariant

NextInterleaved ==
    \/ CreateBaseVariantFirst
    \/ BeginSaveConfig
    \/ FetchVariant
    \/ SaveVariant
    \/ SaveVariantRevision
    \/ FindPreviousVariant
    \/ CheckConfigName
    \/ CreateVariant
    \/ CreateVariantRevision

SpecInterleaved == Init /\ [][NextInterleaved]_vars

(***************************************************************************)
(* Interleaved deploys: deploy_to_environment is a coroutine, and other    *)
(* requests run at each of its awaits.  Each action is the code between    *)
(* two awaits of one call.                                                 *)
(***************************************************************************)
\* the lowest call slot not in use
FreeDeploySlot ==
    CHOOSE s \in 1..MaxDeploys :
        /\ \A q \in deploy_requests : q.slot # s
        /\ \A t \in 1..(s - 1) : \E q \in deploy_requests : q.slot = t

\* every call that has not yet written its revision document will write one
RoomForDeploy ==
    Cardinality(environment_revisions)
        + Cardinality({q \in deploy_requests : q.pc # "environment_db.save"})
            < MaxDeploys

\* call q goes on as next, suspended at its next await
SuspendDeploy(q, next) == (deploy_requests \ {q}) \cup {next}

\* the calls made while deploys interleave: to the two environments deployed
\* to, with the app's deployment in place
InterleavedDeployRequests ==
    {r \in DeployRequests :
        r.environment_name \in DeployTargets /\ r.deployment # None}

\* the environment object of call q as rewritten in memory
UpdatedEnvironment(q) ==
    DeployedEnvironment(q.environment_db, q.app_variant_db,
                        q.app_variant_revision_db, q.deployment)

\* the call and its first read, of the variant
BeginDeploy ==
    \E r \in InterleavedDeployRequests :
        LET app_variant_db == fetch_app_variant_by_id(r.variant_id)
        IN  /\ RoomForDeploy
            /\ app_variant_db # None
            /\ deploy_requests' = deploy_requests \cup
                   { [slot |-> FreeDeploySlot,
                      environment_name |-> r.environment_name,
                      variant_id |-> r.variant_id,
                      deployment |-> r.deployment,
                      pc |-> "fetch_app_variant_revision_by_variant",
                      app_variant_db |-> app_variant_db,
                      app_variant_revision_db |-> None,
                      environment_db |-> None] }
            /\ UNCHANGED <<variants, variant_revisions, environments,
                           environment_revisions, save_requests,
                           testsets, evaluation, revert_requests>>

\* the read of the variant's revision document; the call ends if it raises
FetchVariantRevision ==
    \E q \in deploy_requests :
        LET fetched == fetch_app_variant_revision_by_variant(
                           q.variant_id, q.app_variant_db.revision)
        IN  /\ q.pc = "fetch_app_variant_revision_by_variant"
            /\ deploy_requests' =
                   IF fetched.raised # "" THEN deploy_requests \ {q}
                   ELSE SuspendDeploy(q, [q EXCEPT
                            !.app_variant_revision_db = fetched.value,
                            !.pc = "AppEnvironmentDB.find_one"])
            /\ UNCHANGED <<variants, variant_revisions, environments,
                           environment_revisions, save_requests,
                           testsets, evaluation, revert_requests>>

\* the read of the environment, which the call then rewrites in memory
FindEnvironment ==
    \E q \in deploy_requests :
        LET environment_db == find_environment(q.app_variant_db.app, q.environment_name)
        IN  /\ q.pc = "AppEnvironmentDB.find_one"
            /\ deploy_requests' =
                   IF environment_db = None THEN deploy_requests \ {q}
                   ELSE SuspendDeploy(q, [q EXCEPT
                            !.environment_db = environment_db,
                            !.pc = "create_environment_revision"])
            /\ UNCHANGED <<variants, variant_revisions, environments,
                           environment_revisions, save_requests,
                           testsets, evaluation, revert_requests>>

\* the first write, of the revision document numbered from the object in memory
CreateEnvironmentRevision ==
    \E q \in deploy_requests :
        /\ q.pc = "create_environment_revision"
        /\ environment_revisions' =
               create_environment_revision(UpdatedEnvironment(q),
                                           q.app_variant_revision_db.id, q.deployment)
        /\ deploy_requests' =
               SuspendDeploy(q, [q EXCEPT !.pc = "environment_db.save"])
        /\ UNCHANGED <<variants, variant_revisions, environments, save_requests,
                           testsets, evaluation, revert_requests>>

\* the second write, of the environment object in memory
SaveEnvironment ==
    \E q \in deploy_requests :
        /\ q.pc = "environment_db.save"
        /\ environments' = Save(environments, UpdatedEnvironment(q))
        /\ deploy_requests' = deploy_requests \ {q}
        /\ UNCHANGED <<variants, variant_revisions, environment_revisions,
                       save_requests,
                           testsets, evaluation, revert_requests>>

NextDeploys ==
    \/ CreateBaseVariant
    \/ SaveConfig
    \/ BeginDeploy
    \/ FetchVariantRevision
    \/ FindEnvironment
    \/ CreateEnvironmentRevision
    \/ SaveEnvironment

SpecDeploys == Init /\ [][NextDeploys]_vars

(***************************************************************************)
(* Interleaved reverts: revert_deployment_revision is a coroutine too.  It *)
(* holds the environment document that was fetched along with the          *)
(* environment revision (fetch_links) and saves that document at its end.  *)
(***************************************************************************)
FreeRevertSlot ==
    CHOOSE s \in 1..MaxRevertRequests :
        /\ \A q \in revert_requests : q.slot # s
        /\ \A t \in 1..(s - 1) : \E q \in revert_requests : q.slot = t

\* the request and its first read, of the environment revision and, through
\* its link, of the environment; a request answered 404 is not kept
BeginRevert ==
    \E deployment_revision_id \in RevertRequests :
        LET environment_revision == fetch_app_environment_revision(deployment_revision_id)
        IN  /\ Cardinality(revert_requests) < MaxRevertRequests
            /\ environment_revision # None
            /\ environment_revision.deployed_app_variant_revision # None
            /\ revert_requests' = revert_requests \cup
                   { [slot |-> FreeRevertSlot,
                      environment_revision |-> environment_revision,
                      app_environment |->
                          CHOOSE e \in environments :
                              e.id = environment_revision.environment,
                      pc |-> "AppVariantRevisionsDB.find_one"] }
            /\ UNCHANGED <<variants, variant_revisions, environments,
                           environment_revisions, save_requests, deploy_requests,
                           testsets, evaluation>>

\* update_app_environment_deployed_variant_revision: the read of the variant
\* revision; the request ends if there is none
FindVariantRevision ==
    \E q \in revert_requests :
        LET app_variant_revision ==
                fetch_app_variant_revision_by_id(
                    q.environment_revision.deployed_app_variant_revision)
        IN  /\ q.pc = "AppVariantRevisionsDB.find_one"
            /\ revert_requests' =
                   IF app_variant_revision = None THEN revert_requests \ {q}
                   ELSE (revert_requests \ {q}) \cup
                            {[q EXCEPT !.pc = "app_environment.save"]}
            /\ UNCHANGED <<variants, variant_revisions, environments,
                           environment_revisions, save_requests, deploy_requests,
                           testsets, evaluation>>

\* update_app_environment_deployed_variant_revision: the write, of the
\* environment document the request holds with its pointer set
SaveRevertedEnvironment ==
    \E q \in revert_requests :
        /\ q.pc = "app_environment.save"
        /\ environments' =
               update_app_environment_deployed_variant_revision(
                   q.app_environment,
                   q.environment_revision.deployed_app_variant_revision).environments
        /\ revert_requests' = revert_requests \ {q}
        /\ UNCHANGED <<variants, variant_revisions, environment_revisions,
                       save_requests, deploy_requests, testsets, evaluation>>

NextReverts ==
    \/ CreateBaseVariant
    \/ BeginDeploy
    \/ FetchVariantRevision
    \/ FindEnvironment
    \/ CreateEnvironmentRevision
    \/ SaveEnvironment
    \/ BeginRevert
    \/ FindVariantRevision
    \/ SaveRevertedEnvironment

SpecReverts == Init /\ [][NextReverts]_vars

(***************************************************************************)
(* Testsets of an app                                                      *)
(***************************************************************************)
\* the apps testsets are added to and removed from
TestsetAppIds == {AppId, "app2"}

\* app ids a removal may carry: those and one no testset belongs to
TestsetAppIdInputs == TestsetAppIds \cup {"app0"}

\* the templates an app is created from; only some have a default testset file
TemplateNames == {"single_prompt", "custom"}

HasDefaultTestset(template_name) == template_name = "single_prompt"

NewTestsetId ==
    CHOOSE n \in 1..(MaxTestsets + 1) :
        /\ \A i \in 1..Len(testsets) : testsets[i].id # n
        /\ \A k \in 1..(n - 1) : \E i \in 1..Len(testsets) : testsets[i].id = k

\* db_manager.add_testset_to_app_variant: the default testset of the
\* template, if the template has one, is created for the app
add_testset_to_app_variant(app_id, template_name, app_name) ==
    IF HasDefaultTestset(template_name)
    THEN Append(testsets,
                [id |-> NewTestsetId, app |-> app_id,
                 name |-> <<app_name, "_testset">>])
    ELSE testsets

\* TestSetDB.find(app) .to_list(): the app's testsets in the store's order
TestsetsOfApp(app_id) == SelectSeq(testsets, LAMBDA t : t.app = app_id)

\* db_manager.remove_app_testsets: the return statement is inside the loop,
\* so the loop body runs for the first testset found and the function
\* returns
remove_app_testsets(app_id) ==
    LET found == TestsetsOfApp(app_id)
    IN  IF found # <<>>
        THEN [deleted_count |-> 1,
              testsets |-> SelectSeq(testsets, LAMBDA t : t.id # Head(found).id)]
        ELSE [deleted_count |-> 0, testsets |-> testsets]

AddTestset ==
    \E app_id \in TestsetAppIds, template_name \in TemplateNames :
        /\ Len(testsets) < MaxTestsets
        /\ testsets' = add_testset_to_app_variant(app_id, template_name, app_id)
        /\ UNCHANGED <<variants, variant_revisions, environments,
                       environment_revisions, save_requests, deploy_requests,
                       evaluation, revert_requests>>

RemoveAppTestsets ==
    \E app_id \in TestsetAppIdInputs :
        /\ testsets' = remove_app_testsets(app_id).testsets
        /\ UNCHANGED <<variants, variant_revisions, environments,
                       environment_revisions, save_requests, deploy_requests,
                       evaluation, revert_requests>>

NextTestsets == AddTestset \/ RemoveAppTestsets

SpecTestsets == Init /\ [][NextTestsets]_vars

(***************************************************************************)
(* evaluators_service: the scoring functions and their dispatcher          *)
(* A string is the sequence of its whitespace-separated words.             *)
(***************************************************************************)
ScoringFunctions ==
    {"auto_exact_match", "auto_similarity_match", "auto_regex_test",
     "field_match_test", "auto_webhook_test", "auto_custom_code_run",
     "auto_ai_critique"}

\* the other names bound in the module's namespace to an object that is true
\* in a condition: the dispatcher itself, the imported modules and classes,
\* the logger and the module's name
OtherModuleSymbols ==
    {"evaluate", "re", "json", "httpx", "logging", "sandbox", "logger",
     "Any", "Dict", "Tuple", "Error", "Result", "OpenAI", "LLMChain",
     "PromptTemplate", "__name__"}

\* evaluator keys a call may carry: the scoring functions, other symbols of
\* the module, the module's (empty) docstring and names bound to nothing
EvaluatorKeyInputs ==
    ScoringFunctions \cup
        {"evaluate", "json", "logger", "Result", "__name__", "__doc__",
         "auto_exact", ""}

OutputInputs ==
    {<<>>, <<"paris">>, <<"paris", "france">>, <<"rome">>,
     <<"{", "answer", ":", "paris", "}">>}

CorrectAnswerInputs == {<<>>, <<"paris">>, <<"rome">>}

\* settings_values; the threshold is threshold_num / threshold_den
SettingsInputs ==
    {[similarity_threshold_num |-> 1, similarity_threshold_den |-> 2,
      regex_pattern |-> "paris", regex_should_match |-> TRUE,
      json_field |-> "answer"],
     [similarity_threshold_num |-> 0, similarity_threshold_den |-> 1,
      regex_pattern |-> "rome", regex_should_match |-> FALSE,
      json_field |-> "city"]}

\* what the outside service of a scoring function answers (the webhook, the
\* sandbox, the language model): a failure, or a number in tenths
ExternalAnswers ==
    {[ok |-> FALSE, value |-> 0], [ok |-> TRUE, value |-> 0],
     [ok |-> TRUE, value |-> 5], [ok |-> TRUE, value |-> 15]}

Result(type, value) == [type |-> type, value |-> value, error |-> ""]

ErrorResult(message) == [type |-> "error", value |-> None, error |-> message]

WordsOf(string) == {string[i] : i \in 1..Len(string)}

auto_exact_match(output, correct_answer) ==
    Result("bool", output = correct_answer)

auto_similarity_match(output, correct_answer, settings_values) ==
    LET intersect == WordsOf(output) \cap WordsOf(correct_answer)
        union == WordsOf(output) \cup WordsOf(correct_answer)
    IN  IF union = {}
        THEN ErrorResult("Error during Auto Similarity Match evaluation")
        ELSE Result("bool",
                    Cardinality(intersect) * settings_values.similarity_threshold_den
                        > settings_values.similarity_threshold_num * Cardinality(union))

\* the pattern is a word, found when it is one of the output's words
auto_regex_test(output, settings_values) ==
    Result("bool",
           (settings_values.regex_pattern \in WordsOf(output))
               = settings_values.regex_should_match)

\* json.loads succeeds on an object of one field; any failure gives False
field_match_test(output, correct_answer, settings_values) ==
    IF /\ Len(output) = 5
       /\ output[1] = "{" /\ output[3] = ":" /\ output[5] = "}"
       /\ output[2] = settings_values.json_field
    THEN Result("bool", <<output[4]>> = correct_answer)
    ELSE Result("bool", FALSE)

auto_webhook_test(external) ==
    IF ~external.ok
    THEN ErrorResult("Error during Auto Webhook evaluation; An HTTP error occurred")
    ELSE IF external.value = 0
    THEN ErrorResult("Error during Auto Webhook evaluation; Webhook did not return a score")
    ELSE IF external.value < 0 \/ external.value > 10
    THEN ErrorResult("Error during Auto Webhook evaluation; Webhook returned an invalid score. Score must be between 0 and 1")
    ELSE Result("number", external.value)

auto_custom_code_run(external) ==
    IF external.ok THEN Result("number", external.value)
    ELSE ErrorResult("Error during Auto Custom Code Evaluation")

auto_ai_critique(external) ==
    IF external.ok THEN Result("text", external.value)
    ELSE ErrorResult("Error during Auto AI Critique")

\* globals().get(evaluator_key, None): the object the name is bound to in the
\* module's namespace
globals_get(evaluator_key) ==
    IF evaluator_key \in ScoringFunctions \cup OtherModuleSymbols
    THEN <<evaluator_key>>
    ELSE None

\* evaluators_service.evaluate.  An object that is not a scoring function
\* raises when called with the six arguments (a module or the logger is not
\* callable, evaluate lacks its seventh argument, the classes take no such
\* arguments), and any exception of the call is raised again as RuntimeError.
evaluate(evaluator_key, output, correct_answer, settings_values, external) ==
    LET evaluation_function == globals_get(evaluator_key)
        returned(result) == [raised |-> "", result |-> result]
        raised(exception) == [raised |-> exception, result |-> None]
    IN  IF evaluation_function = None THEN raised("ValueError")
        ELSE IF evaluator_key = "auto_exact_match"
        THEN returned(auto_exact_match(output, correct_answer))
        ELSE IF evaluator_key = "auto_similarity_match"
        THEN returned(auto_similarity_match(output, correct_answer, settings_values))
        ELSE IF evaluator_key = "auto_regex_test"
        THEN returned(auto_regex_test(output, settings_values))
        ELSE IF evaluator_key = "field_match_test"
        THEN returned(field_match_test(output, correct_answer, settings_values))
        ELSE IF evaluator_key = "auto_webhook_test"
        THEN returned(auto_webhook_test(external))
        ELSE IF evaluator_key = "auto_custom_code_run"
        THEN returned(auto_custom_code_run(external))
        ELSE IF evaluator_key = "auto_ai_critique"
        THEN returned(auto_ai_critique(external))
        ELSE raised("RuntimeError")

Evaluate ==
    \E evaluator_key \in EvaluatorKeyInputs, output \in OutputInputs,
       correct_answer \in CorrectAnswerInputs, settings_values \in SettingsInputs,
       external \in ExternalAnswers :
        /\ evaluation' =
               [evaluator_key |-> evaluator_key, output |-> output,
                correct_answer |-> correct_answer,
                outcome |-> evaluate(evaluator_key, output, correct_answer,
                                     settings_values, external)]
        /\ UNCHANGED <<variants, variant_revisions, environments,
                       environment_revisions, save_requests, deploy_requests,
                       testsets, revert_requests>>

NextEvaluators == Evaluate

SpecEvaluators == Init /\ [][NextEvaluators]_vars

(***************************************************************************)
(* Properties                                                              *)
(***************************************************************************)
RevisionsOf(v) == {r \in variant_revisions : r.variant = v.id}

RevisionNumbers(v) == {r.revision : r \in RevisionsOf(v)}

\* a variant created by create_new_app_variant (with its base), as opposed
\* to one created by a named config save
IsBaseVariant(v) == v.previous_variant_name = ""

\* C1: after any sequence of completed operations, every variant's current
\* revision number is the highest revision number among the VariantRevision
\* records of that variant.
C1_CurrentRevisionIsMax ==
    \A v \in variants :
        /\ v.revision \in RevisionNumbers(v)
        /\ \A n \in RevisionNumbers(v) : n <= v.revision

\* a variant created by a named save and then updated in place
C1_Witness ==
    \E v \in variants : ~ IsBaseVariant(v) /\ v.revision = 2

C3_SnapshotsImmutable ==
    [][\A r \in variant_revisions :
          \E r2 \in variant_revisions' : r2.id = r.id /\ r2.config = r.config]_vars

\* an older revision whose snapshot differs from the variant's current config
C3_Witness ==
    \E v \in variants : \E r \in RevisionsOf(v) :
        /\ r.revision < v.revision
        /\ r.config.parameters # v.config.parameters
        /\ r.config.parameters # {}

SaveConfigOutcome(r) ==
    save_config(r.base_id, r.config_name, r.parameters, r.overwrite, r.access)

\* the variant a save_config request names: under its base, with its config name
Names(r, v) == v.base = r.base_id /\ v.config_name = r.config_name

\* out is the outcome of an in-place update of v to parameters: v moves to
\* the next revision with these parameters, no variant is created, and
\* exactly one VariantRevision is appended, at the new number, holding them
InPlaceUpdate(out, v, parameters) ==
    /\ out.status = "200"
    /\ {w.id : w \in out.variants} = {w.id : w \in variants}
    /\ \A w \in variants : w.id # v.id => w \in out.variants
    /\ \A v2 \in out.variants :
          v2.id = v.id =>
              /\ v2.revision = v.revision + 1
              /\ v2.config = [config_name |-> v.config_name, parameters |-> parameters]
    /\ variant_revisions \subseteq out.variant_revisions
    /\ \E rec \in out.variant_revisions :
          /\ out.variant_revisions \ variant_revisions = {rec}
          /\ rec.variant = v.id
          /\ rec.revision = v.revision + 1
          /\ rec.config = [config_name |-> v.config_name, parameters |-> parameters]
    /\ Cardinality({x \in out.variant_revisions :
                       x.variant = v.id /\ x.revision = v.revision + 1}) = 1

\* C4: once a deploy has pinned revision R of a variant to environment E,
\* get_config by environment name E answers R's snapshot, and every later
\* step that leaves E's document alone (any save_config, any deploy or revert
\* of another environment) leaves that answer as it is.
C4_PinnedConfigStable ==
    [][\/ UNCHANGED vars
       \/ /\ \A e \in environments :
                (e \in environments' /\ e.deployed_app_variant_revision # None)
                    => \A b \in BaseIds :
                           get_config(b, "", e.name, TRUE)' =
                               get_config(b, "", e.name, TRUE)
          /\ \A e \in environments : \A e2 \in environments' :
                (e2.id = e.id /\ e2.revision = e.revision + 1)
                    => LET v == fetch_app_variant_by_id(e2.deployed_app_variant)
                           R == fetch_app_variant_revision_by_variant(
                                    v.id, v.revision).value
                       IN  get_config(v.base, "", e.name, TRUE)' =
                               [status |-> "200", detail |-> "", config |-> R.config]
      ]_vars

\* an environment pinned to revision R of a variant that has since been saved
\* to a later revision with other parameters, still answering R's snapshot
C4_Witness ==
    \E e \in environments : \E v \in variants : \E r \in RevisionsOf(v) :
        /\ e.deployed_app_variant_revision = r.id
        /\ e.revision = 1
        /\ r.revision < v.revision
        /\ r.config.parameters # {}
        /\ r.config # v.config
        /\ get_config(v.base, "", e.name, TRUE).config = r.config

\* C5: save_config with overwrite = false for a config name whose variant has
\* non-empty current parameters is answered with status 200 and the conflict
\* message, and writes nothing: the variants and the variant revisions stay
\* as they were.
C5_ConflictWritesNothing ==
    \A r \in SaveConfigInputs :
        (/\ r.access /\ ~ r.overwrite
         /\ \E v \in variants : Names(r, v) /\ v.config.parameters # {})
            => LET out == SaveConfigOutcome(r)
               IN  /\ out.status = "200"
                   /\ out.detail = ConfigNameExists
                   /\ out.variants = variants
                   /\ out.variant_revisions = variant_revisions

\* a request sent without overwrite for a variant holding parameters, and
\* refused
C5_Witness ==
    \E r \in SaveConfigRequests :
        /\ r.access /\ ~ r.overwrite /\ r.parameters # {}
        /\ \E v \in variants : Names(r, v) /\ v.config.parameters # {} /\ v.revision = 2
        /\ SaveConfigOutcome(r).detail = ConfigNameExists

\* C6: save_config with overwrite = true for an existing config name moves
\* that variant to the next revision number, sets its current parameters to
\* the supplied ones and appends exactly one VariantRevision, at the new
\* number, holding them.
C6_OverwriteAddsOneRevision ==
    \A r \in SaveConfigInputs : \A v \in variants :
        (r.access /\ r.overwrite /\ Names(r, v))
            => InPlaceUpdate(SaveConfigOutcome(r), v, r.parameters)

\* a variant holding parameters that was overwritten with other parameters
C6_Witness ==
    \E v \in variants : \E r1, r2 \in RevisionsOf(v) :
        /\ r2.revision = v.revision /\ r1.revision = v.revision - 1
        /\ r1.config.parameters # {}
        /\ r2.config.parameters # r1.config.parameters
        /\ v.config = r2.config

\* C7: save_config with overwrite = false for an existing config name whose
\* variant currently holds empty parameters is accepted and does what
\* overwrite = true does: the in-place update, at whatever revision number
\* the variant is.
C7_EmptyParametersAreOverwritten ==
    \A r \in SaveConfigInputs : \A v \in variants :
        (r.access /\ ~ r.overwrite /\ Names(r, v) /\ v.config.parameters = {})
            => /\ InPlaceUpdate(SaveConfigOutcome(r), v, r.parameters)
               /\ SaveConfigOutcome(r) =
                      SaveConfigOutcome([r EXCEPT !.overwrite = TRUE])

\* a variant that held empty parameters at a revision above 0 and was saved
\* to from there
C7_Witness ==
    \E v \in variants : \E r1 \in RevisionsOf(v) :
        /\ r1.revision = v.revision - 1 /\ r1.revision >= 1
        /\ r1.config.parameters = {}
        /\ v.config.parameters # {}

\* out is the outcome of creating the variant a request names: one new
\* variant of the base, named base_name.config_name, at revision 1, and one
\* VariantRevision for it, at revision 1, both holding the parameters
NewVariantCreated(out, r) ==
    LET base == CHOOSE b \in bases : b.id = r.base_id
        config == [config_name |-> r.config_name, parameters |-> r.parameters]
    IN  /\ out.status = "200"
        /\ variants \subseteq out.variants
        /\ variant_revisions \subseteq out.variant_revisions
        /\ \E nv \in out.variants : \E rec \in out.variant_revisions :
              /\ out.variants \ variants = {nv}
              /\ nv.base = r.base_id
              /\ nv.variant_name = base.base_name \o "." \o r.config_name
              /\ nv.revision = 1
              /\ nv.config = config
              /\ out.variant_revisions \ variant_revisions = {rec}
              /\ rec.variant = nv.id /\ rec.revision = 1 /\ rec.config = config
              /\ {x.revision : x \in {y \in out.variant_revisions : y.variant = nv.id}} = {1}

\* C8, as stated: save_config for a config name that no variant under the
\* base carries creates the variant at revision 1 with one VariantRevision
\* at 1 and none at 0.
C8_AsStated ==
    \A r \in SaveConfigInputs :
        (/\ r.access /\ r.base_id \in BaseIds
         /\ ~ \E v \in variants : Names(r, v))
            => NewVariantCreated(SaveConfigOutcome(r), r)

\* C8, amended: it does so when the base has at least one variant; for a
\* base with no variant the request is answered 500 "Previous app variant
\* not found" and nothing is written.
C8_NewVariantAtRevisionOne ==
    \A r \in SaveConfigInputs :
        (/\ r.access /\ r.base_id \in BaseIds
         /\ ~ \E v \in variants : Names(r, v))
            => LET out == SaveConfigOutcome(r)
               IN  IF \E v \in variants : v.base = r.base_id
                   THEN NewVariantCreated(out, r)
                   ELSE /\ out.status = "500"
                        /\ out.detail = "Previous app variant not found"
                        /\ out.variants = variants
                        /\ out.variant_revisions = variant_revisions

\* a variant created by a named save, next to the base variant
C8_Witness ==
    \E v, w \in variants :
        /\ IsBaseVariant(v) /\ w.base = v.base
        /\ w.config_name = "prod" /\ w.variant_name = v.base_name \o ".prod"
        /\ w.revision = 1 /\ w.config.parameters # {}
        /\ RevisionNumbers(w) = {1}

DeployOutcome(r) ==
    deploy_to_environment(r.environment_name, r.variant_id, r.deployment)

\* the EnvironmentRevision records of an environment in a collection
RecordsOf(e, revisions) == {x \in revisions : x.environment = e.id}

\* C9: a successful deploy to environment E increases E's revision counter by
\* exactly 1 and appends exactly one EnvironmentRevision, a record of E whose
\* deployed variant revision is E's live pointer after the deploy.
C9_DeployAppendsOneRevision ==
    \A r \in DeployInputs :
        LET out == DeployOutcome(r)
        IN  out.raised = "" =>
                \E e \in environments : \E e2 \in out.environments :
                \E rec \in out.environment_revisions :
                    /\ e.name = r.environment_name /\ e2.id = e.id
                    /\ e2.revision = e.revision + 1
                    /\ environment_revisions \subseteq out.environment_revisions
                    /\ out.environment_revisions \ environment_revisions = {rec}
                    /\ rec.environment = e.id
                    /\ rec.deployed_app_variant_revision =
                           e2.deployed_app_variant_revision
                    /\ e2.deployed_app_variant_revision # None

\* an environment deployed to twice, its counter at 2
C9_Witness ==
    \E e \in environments : \E rec \in RecordsOf(e, environment_revisions) :
        /\ e.revision = 2 /\ rec.revision = 2
        /\ rec.deployed_app_variant_revision = e.deployed_app_variant_revision

\* C10: in the state a successful deploy to environment E leaves, E's
\* revision counter is the number of EnvironmentRevision records of E, and
\* the record of E with the highest revision number carries E's live pointer.
C10_CounterIsRecordCount ==
    \A r \in DeployInputs :
        LET out == DeployOutcome(r)
        IN  out.raised = "" =>
                \A e2 \in out.environments :
                    e2.name = r.environment_name =>
                        LET recs == RecordsOf(e2, out.environment_revisions)
                        IN  /\ e2.revision = Cardinality(recs)
                            /\ \A top \in recs :
                                  (\A x \in recs : x.revision <= top.revision)
                                      => top.deployed_app_variant_revision =
                                             e2.deployed_app_variant_revision

\* an environment deployed to, reverted, and with a deploy of another
\* revision about to succeed
C10_Witness ==
    \E e \in environments : \E rec \in RecordsOf(e, environment_revisions) :
    \E r \in DeployRequests :
        /\ e.revision = 2 /\ rec.revision = 2
        /\ rec.deployed_app_variant_revision # e.deployed_app_variant_revision
        /\ r.environment_name = e.name
        /\ DeployOutcome(r).raised = ""

\* C11: after a successful deploy of variant V to environment E, E's live
\* pointer is the VariantRevision of V numbered V's current revision number,
\* the latest one at the time of the deploy, and no earlier one.
C11_DeployPinsCurrentRevision ==
    \A r \in DeployInputs :
        LET out == DeployOutcome(r)
            v == fetch_app_variant_by_id(r.variant_id)
        IN  out.raised = "" =>
                \E e2 \in out.environments : \E rec \in variant_revisions :
                    /\ e2.app = v.app /\ e2.name = r.environment_name
                    /\ e2.deployed_app_variant_revision = rec.id
                    /\ rec.variant = v.id
                    /\ rec.revision = v.revision
                    /\ \A x \in RevisionsOf(v) : x.revision <= rec.revision

\* an environment deployed to from a variant saved twice, pointing at the
\* variant's revision 2 while revisions 0 and 1 are in the store
C11_Witness ==
    \E e \in environments : \E v \in variants : \E rec \in RevisionsOf(v) :
        /\ e.revision = 1 /\ e.deployed_app_variant = v.id
        /\ e.deployed_app_variant_revision = rec.id
        /\ v.revision = 2 /\ rec.revision = 2
        /\ RevisionNumbers(v) = 0..2

\* C12: the EnvironmentRevision a deploy appends is numbered with the
\* environment's counter after the increment, and in every state reached by
\* deploys and reverts run one after the other the revision numbers of an
\* environment's records are exactly 1..revision counter, each carried once.
C12_EnvironmentRevisionsNumbered ==
    /\ \A e \in environments :
          LET recs == RecordsOf(e, environment_revisions)
          IN  /\ {x.revision : x \in recs} = 1..e.revision
              /\ Cardinality(recs) = e.revision
    /\ \A r \in DeployInputs :
          LET out == DeployOutcome(r)
          IN  out.raised = "" =>
                  \A rec \in out.environment_revisions \ environment_revisions :
                      \E e2 \in out.environments :
                          e2.id = rec.environment /\ rec.revision = e2.revision

\* an environment deployed to twice and then reverted to its first record
C12_Witness ==
    \E e \in environments : \E r1, r2 \in RecordsOf(e, environment_revisions) :
        /\ e.revision = 2 /\ r1.revision = 1 /\ r2.revision = 2
        /\ r1.deployed_app_variant_revision # r2.deployed_app_variant_revision
        /\ e.deployed_app_variant_revision = r1.deployed_app_variant_revision

\* C13: a successful revert to EnvironmentRevision X leaves the environment
\* that owns X with its live pointer equal to X's deployed variant revision,
\* whatever the pointer was and whatever was deployed or reverted since X.
C13_RevertSetsPointer ==
    \A id \in EnvironmentRevisionIdInputs :
        LET X == fetch_app_environment_revision(id)
            out == revert_deployment_revision(id)
        IN  out.status = "200" =>
                /\ X # None
                /\ \E e2 \in out.environments :
                      /\ e2.id = X.environment
                      /\ e2.deployed_app_variant_revision =
                             X.deployed_app_variant_revision
                /\ Cardinality({e2 \in out.environments : e2.id = X.environment}) = 1

\* an environment deployed to from one variant, then from another, and
\* reverted to its first record: it points at the first variant's revision
C13_Witness ==
    \E e \in environments : \E X \in RecordsOf(e, environment_revisions) :
    \E rec \in variant_revisions :
        /\ e.revision = 2 /\ X.revision = 1
        /\ e.deployed_app_variant_revision = X.deployed_app_variant_revision
        /\ rec.id = X.deployed_app_variant_revision
        /\ rec.variant # e.deployed_app_variant

\* C14: a revert changes nothing but the live pointer of one environment: no
\* environment's revision counter moves and no EnvironmentRevision is appended.
C14_RevertOnlyMovesPointer ==
    [][Revert =>
          /\ environment_revisions' = environment_revisions
          /\ \A e \in environments : \E e2 \in environments' :
                e2 = [e EXCEPT !.deployed_app_variant_revision =
                                   e2.deployed_app_variant_revision]
          /\ Cardinality(environments') = Cardinality(environments)]_vars

\* an environment reverted after its second deploy: the counter is still 2,
\* the records are still two, and the variant it names is still the one of
\* the second deploy, while the pointer is not the second record's
C14_Witness ==
    \E e \in environments : \E top \in RecordsOf(e, environment_revisions) :
        /\ e.revision = 2 /\ top.revision = 2
        /\ Cardinality(RecordsOf(e, environment_revisions)) = 2
        /\ e.deployed_app_variant_revision # top.deployed_app_variant_revision
        /\ fetch_app_variant_revision_by_id(top.deployed_app_variant_revision).variant
               = e.deployed_app_variant

\* C15: a revert whose id matches no EnvironmentRevision, or matches a record
\* holding no deployed variant revision, is answered 404 and leaves every
\* environment, its pointer and its counter, as it was.  (For the second case
\* the handler is run on each stored record with its target cleared.)
C15_RevertNotFound ==
    /\ \A id \in EnvironmentRevisionIdInputs :
          fetch_app_environment_revision(id) = None =>
              LET out == revert_deployment_revision(id)
              IN  out.status = "404" /\ out.environments = environments
    /\ \A rec \in environment_revisions :
          LET out == reverted_to([rec EXCEPT !.deployed_app_variant_revision = None])
          IN  out.status = "404" /\ out.environments = environments

\* a deployed environment and a revert request for a record it does not have
C15_Witness ==
    \E e \in environments : \E id \in RevertRequests :
        /\ e.revision = 1 /\ e.deployed_app_variant_revision # None
        /\ id[1] = e.id /\ id[2] = 2
        /\ fetch_app_environment_revision(id) = None
        /\ revert_deployment_revision(id).status = "404"

\* C16: get_config by config name answers the variant's current config, which
\* is the config written by the latest completed save to that variant (the
\* snapshot of its highest-numbered revision), whether or not an environment
\* deploys that revision.
C16_ConfigByNameIsCurrent ==
    \A b \in BaseIds : \A c \in ConfigNames : \A v \in variants :
        (v.base = b /\ v.config_name = c) =>
            LET out == get_config(b, c, "", TRUE)
            IN  /\ out.status = "200"
                /\ out.config = v.config
                /\ \E rec \in RevisionsOf(v) :
                      /\ \A x \in RevisionsOf(v) : x.revision <= rec.revision
                      /\ out.config = rec.config

\* a variant deployed at revision 1 and saved again since with other
\* parameters, answering by name the parameters of revision 2
C16_Witness ==
    \E e \in environments : \E v \in variants : \E r1, r2 \in RevisionsOf(v) :
        /\ e.deployed_app_variant = v.id
        /\ e.deployed_app_variant_revision = r1.id
        /\ r1.revision = 1 /\ r2.revision = 2 /\ v.revision = 2
        /\ r1.config.parameters # r2.config.parameters
        /\ get_config(v.base, v.config_name, "", TRUE).config.parameters =
               r2.config.parameters

\* C17: get_config by environment name is answered with the not-found
\* failure (400) and no config when the environment exists but was never
\* deployed to, and when the revision it points to belongs to a base other
\* than the requested one.
C17_EnvironmentWithoutConfigForBase ==
    \A b \in BaseIds : \A c \in ConfigNames \cup {""} : \A e \in environments :
        LET out == get_config(b, c, e.name, TRUE)
            pinned == fetch_app_variant_revision_by_id(e.deployed_app_variant_revision)
        IN  /\ e.deployed_app_variant_revision = None =>
                  /\ out.status = "400" /\ out.config = None
                  /\ out.detail = "Environment name not found for base"
            /\ (e.deployed_app_variant_revision # None /\ pinned.base # b) =>
                  /\ out.status = "400" /\ out.config = None
                  /\ out.detail = "Environment does not deploy base"

\* one environment never deployed to, another deployed to from base b1 and
\* asked for base b2, while b2 has a variant of its own
C17_Witness ==
    \E e1, e2 \in environments : \E v \in variants :
        /\ e1.deployed_app_variant_revision = None /\ e1.revision = 0
        /\ e2.deployed_app_variant_revision # None
        /\ fetch_app_variant_revision_by_id(e2.deployed_app_variant_revision).base = "b1"
        /\ v.base = "b2"
        /\ get_config("b2", "", e2.name, TRUE).status = "400"
        /\ get_config("b1", "", e2.name, TRUE).status = "200"

\* C18: get_config with an environment name that none of the application's
\* environments carries is answered with the 400 not-found failure, as an
\* unknown config name is, and not with the 500 failure.
C18_UnknownEnvironmentIsNotFound ==
    \A b \in BaseIds : \A name \in EnvironmentNameInputs :
        (~ \E e \in list_environments(AppId) : e.name = name)
            => get_config(b, "", name, TRUE).status = "400"

\* C19: when two in-place saves to one variant interleave so that both have
\* read revision number n, the one that appends its VariantRevision for
\* (variant, n+1) second is refused and writes nothing; and no state holds
\* two VariantRevision records of one variant with the same revision number.
C19_ConflictOnSameRevisionNumber ==
    [][/\ \A q \in save_requests :
             (/\ q.pc = "variant_revision.save"
              /\ q \notin save_requests'
              /\ \E rec \in variant_revisions :
                     /\ rec.variant = q.app_variant_db.id
                     /\ rec.revision = q.app_variant_db.revision + 1)
                 => variant_revisions' = variant_revisions
       /\ \A r1, r2 \in variant_revisions' :
             (r1.variant = r2.variant /\ r1.revision = r2.revision) => r1 = r2
      ]_vars

\* C20: when two save_config requests for the same new (base, config name)
\* interleave so that both have seen no variant of that name, the one that
\* creates its variant second is refused and writes nothing; and no state
\* holds two variants with the same base and config name.
C20_OneVariantPerConfigName ==
    [][/\ \A q \in save_requests :
             (/\ q.pc = "db_app_variant.create"
              /\ q \notin save_requests'
              /\ \E v \in variants :
                     v.base = q.base_id /\ v.config_name = q.config_name)
                 => variants' = variants
       /\ \A v, w \in variants' :
             (v.base = w.base /\ v.config_name = w.config_name) => v = w
      ]_vars

\* C27: in every step of a sequence of save_config, deploy and revert
\* operations no variant's current revision number decreases, and every
\* VariantRevision record stays in the store under its variant and number.
C27_RevisionsOnlyGrow ==
    [][/\ \A v \in variants : \E v2 \in variants' :
             v2.id = v.id /\ v2.revision >= v.revision
       /\ \A r \in variant_revisions : \E r2 \in variant_revisions' :
             r2.id = r.id /\ r2.variant = r.variant /\ r2.revision = r.revision
      ]_vars

\* a variant deployed at revision 0, saved to revision 1 and deployed again,
\* its environment then reverted to the record of revision 0
C27_Witness ==
    \E e \in environments : \E v \in variants : \E rec \in RevisionsOf(v) :
        /\ e.revision = 2 /\ e.deployed_app_variant = v.id
        /\ e.deployed_app_variant_revision = rec.id /\ rec.revision = 0
        /\ v.revision = 1 /\ RevisionNumbers(v) = {0, 1}

\* C28: application creation makes exactly the environments development,
\* staging and production of the application, each at revision counter 0,
\* with no deployed variant revision and no EnvironmentRevision record; an
\* environment is as it was created for as long as it has no record.
C28_EnvironmentsAsCreated ==
    LET created == initialize_environments(AppId)
    IN  /\ {e.name : e \in created} = {"development", "staging", "production"}
        /\ Cardinality(created) = 3
        /\ \A e \in created :
              /\ e.app = AppId /\ e.revision = 0
              /\ e.deployed_app_variant_revision = None
              /\ e.deployed_app_variant = None
        /\ {e.id : e \in environments} = {e.id : e \in created}
        /\ Cardinality(environments) = 3
        /\ \A e \in environments :
              RecordsOf(e, environment_revisions) = {} => e \in created

\* the state application creation leaves, before any variant exists
C28_Witness ==
    /\ environments = initialize_environments(AppId)
    /\ environment_revisions = {}
    /\ variants = {}
    /\ \A e \in environments : e.revision = 0

\* C30: create_new_app_variant with empty parameters creates the variant at
\* revision 0 with exactly one VariantRevision, numbered 0 and holding the
\* empty config; with non-empty parameters it is refused and writes nothing.
\* Every base variant in the store has such a revision 0.
C30_BaseVariantStartsEmpty ==
    /\ \A base \in bases : \A parameters \in ParamValues :
          list_variants_for_base(base) = {} =>
              LET out == create_new_app_variant(base, DefaultConfigName, parameters)
                  empty == [config_name |-> DefaultConfigName, parameters |-> {}]
              IN  IF parameters = {}
                  THEN /\ out.raised = ""
                       /\ \E nv \in out.variants : \E rec \in out.variant_revisions :
                             /\ out.variants \ variants = {nv}
                             /\ out.variant_revisions \ variant_revisions = {rec}
                             /\ nv.base = base.id /\ nv.revision = 0
                             /\ nv.config = empty
                             /\ rec.variant = nv.id /\ rec.revision = 0
                             /\ rec.config = empty
                             /\ {x \in out.variant_revisions : x.variant = nv.id} = {rec}
                  ELSE /\ out.raised = "AssertionError"
                       /\ out.variants = variants
                       /\ out.variant_revisions = variant_revisions
    /\ \A v \in variants :
          IsBaseVariant(v) =>
              \E rec \in RevisionsOf(v) :
                  /\ rec.revision = 0 /\ rec.config.parameters = {}
                  /\ \A x \in RevisionsOf(v) : x.revision = 0 => x = rec

\* one base with its base variant, since saved to, and the other base still
\* without a variant, for which creation with parameters is refused
C30_Witness ==
    \E v \in variants : \E base \in bases : \E parameters \in ParamValues :
        /\ IsBaseVariant(v) /\ v.revision = 1 /\ v.config.parameters # {}
        /\ list_variants_for_base(base) = {} /\ parameters # {}
        /\ create_new_app_variant(base, DefaultConfigName, parameters).raised
               = "AssertionError"

\* C23: save config and revert consult the authorization gate before their
\* first write, and a request of an actor the gate denies writes nothing.
\* (revert_deployment_revision takes no actor and makes no gate call: its
\* outcome is the same whatever the gate would answer.  The handler that
\* calls deploy_to_environment is not part of the modelled sources.)
C23_DeniedRequestsWriteNothing ==
    /\ \A r \in SaveConfigInputs :
          ~ r.access =>
              LET out == SaveConfigOutcome(r)
              IN  /\ out.status \in {"403", "404"}
                  /\ out.variants = variants
                  /\ out.variant_revisions = variant_revisions
    /\ \A id \in EnvironmentRevisionIdInputs : \A access \in BOOLEAN :
          ~ access =>
              revert_deployment_revision(id).environments = environments

\* C24: in an in-place update the VariantRevision numbered n+1 is in the
\* store before the variant document shows revision n+1: no step moves a
\* variant to a revision number that has no record yet, and no state holds a
\* variant with records none of which carries its current revision number.
C24_RevisionBeforeVariant ==
    [][/\ \A v \in variants : \A v2 \in variants' :
             (v2.id = v.id /\ v2.revision # v.revision)
                 => \E rec \in variant_revisions :
                        rec.variant = v.id /\ rec.revision = v2.revision
       /\ \A v2 \in variants' :
             LET numbers == {r.revision : r \in {x \in variant_revisions' :
                                                   x.variant = v2.id}}
             IN  numbers # {} => v2.revision \in numbers
      ]_vars

\* C25: in a state where a variant's current revision number is carried by
\* none of its VariantRevision records, a deploy of that variant raises, pins
\* no revision and leaves the environments and their EnvironmentRevision
\* records as they were.
C25_DeployFailsWithoutCurrentRevision ==
    \A r \in DeployInputs :
        LET v == fetch_app_variant_by_id(r.variant_id)
            out == DeployOutcome(r)
        IN  (v # None /\ v.revision \notin RevisionNumbers(v))
                => /\ out.raised # ""
                   /\ out.environments = environments
                   /\ out.environment_revisions = environment_revisions

\* a save between its two writes: the variant is at revision 1, its only
\* record is numbered 0, and a deploy to production with the deployment in
\* place raises
C25_Witness ==
    \E v \in variants : \E q \in save_requests : \E r \in DeployRequests :
        /\ q.pc = "variant_revision.save" /\ q.app_variant_db.id = v.id
        /\ v.revision = 1 /\ RevisionNumbers(v) = {0}
        /\ r.variant_id = v.id /\ r.environment_name = "production"
        /\ r.deployment # None
        /\ DeployOutcome(r).raised = "Exception"

\* C26: an in-place save that meets a revision-log conflict is retried once
\* on a fresh read, so that of two interleaved overwrite saves starting at
\* revision n both land, as n+1 and n+2: once no save is in progress every
\* record of a variant has a revision number of its own, and the variant is
\* at the highest of them, holding that record's config.
C26_InterleavedSavesBothLand ==
    save_requests = {} =>
        \A v \in variants :
            /\ Cardinality(RevisionNumbers(v)) = Cardinality(RevisionsOf(v))
            /\ \A rec \in RevisionsOf(v) :
                  /\ rec.revision <= v.revision
                  /\ rec.revision = v.revision => rec.config = v.config


\* what get_config_deployment_revision owes for a stored environment revision
\* whose variant revision is stored too
SnapshotOf(environment_revision) ==
    LET variant_revision ==
            CHOOSE r \in variant_revisions :
                r.id = environment_revision.deployed_app_variant_revision
    IN  [config_name |-> variant_revision.config.config_name,
         parameters |-> variant_revision.config.parameters,
         current_version |-> environment_revision.revision]

TargetStored(environment_revision) ==
    \E r \in variant_revisions :
        r.id = environment_revision.deployed_app_variant_revision

\* C29: reading the configuration of environment revision X answers with the
\* snapshot of the variant revision X points to and with X's own revision
\* number; saves, deploys and reverts made afterwards leave that answer as it
\* was; the answer is 404 when X is not stored or when the variant revision
\* it points to is not stored (any more).
C29_DeploymentRevisionAnswer ==
    /\ [](\A id \in EnvironmentRevisionIdInputs \cup {r.id : r \in environment_revisions} :
            LET X == fetch_app_environment_revision(id)
                answer == get_config_deployment_revision(id)
            IN  /\ X = None => answer.status = "404"
                /\ (X # None /\ ~TargetStored(X)) => answer.status = "404"
                /\ (X # None /\ TargetStored(X)) =>
                       /\ answer.status = "200"
                       /\ answer.body = SnapshotOf(X))
    /\ [][\A id \in {r.id : r \in environment_revisions} :
              LET answer == get_config_deployment_revision(id)
              IN  answer.status = "200" =>
                     \/ get_config_deployment_revision(id)' = answer
                     \/ /\ get_config_deployment_revision(id)'.status = "404"
                        /\ ~(TargetStored(fetch_app_environment_revision(id)))'
                        /\ fetch_app_environment_revision(id)' # None]_vars

\* two deployments were made, the variant of the first was removed, the
\* variant of the second was saved again: the first record answers 404, the
\* second its snapshot under its own number
C29_Witness ==
    \E X1, X2 \in environment_revisions :
        /\ X1.environment = X2.environment
        /\ X1.revision = 1 /\ X2.revision = 2
        /\ ~TargetStored(X1)
        /\ get_config_deployment_revision(X1.id).status = "404"
        /\ TargetStored(X2)
        /\ get_config_deployment_revision(X2.id).status = "200"
        /\ get_config_deployment_revision(X2.id).body.current_version = 2
        /\ \E v \in variants, r \in variant_revisions :
               /\ r.id = X2.deployed_app_variant_revision
               /\ r.variant = v.id
               /\ v.revision > r.revision
               /\ v.config.parameters # r.config.parameters
               /\ get_config_deployment_revision(X2.id).body.parameters
                      = r.config.parameters


\* C21: however the deploy calls to one environment interleave, once they
\* have all returned the environment's counter has grown by one per call and
\* the revision documents they created carry pairwise distinct numbers (the
\* counter starts at 0, so it equals the number of documents).
C21_InterleavedDeploysAllCounted ==
    deploy_requests = {} =>
        \A e \in environments :
            /\ e.revision = Cardinality(RecordsOf(e, environment_revisions))
            /\ \A r1, r2 \in RecordsOf(e, environment_revisions) : r1.revision = r2.revision => r1 = r2

\* the environments a deploy call in progress has written a revision document
\* for without having saved the environment yet
BeingWritten ==
    {q.environment_name : q \in {x \in deploy_requests : x.pc = "environment_db.save"}}

\* C22: deploy calls to different environments commute.  A step of a call
\* leaves every environment other than the one it names, and that one's
\* revision documents, as they were; and an environment whose own deploys did
\* not overlap (no two of its revision documents share a number, none is
\* half written) is as its deploys run one after the other leave it, however
\* the calls to the other environments interleaved with them: its counter is
\* the number of its revision documents, these are numbered 1..counter, and
\* it points to what the last of them records.
C22_DeploysToDifferentEnvironmentsCommute ==
    /\ [](\A e \in environments :
            (/\ e.name \notin BeingWritten
             /\ \A r1, r2 \in RecordsOf(e, environment_revisions) : r1.revision = r2.revision => r1 = r2)
            => /\ e.revision = Cardinality(RecordsOf(e, environment_revisions))
               /\ {r.revision : r \in RecordsOf(e, environment_revisions)} = 1..e.revision
               /\ \A r \in RecordsOf(e, environment_revisions) :
                      r.revision = e.revision =>
                          /\ e.deployed_app_variant_revision
                                 = r.deployed_app_variant_revision
                          /\ e.deployed_app_variant
                                 = r.deployed_app_variant_revision[1])
    /\ [][\A q \in deploy_requests :
              q \notin deploy_requests' =>
                  \A e \in environments :
                      q.environment_name # e.name =>
                          /\ e \in environments'
                          /\ RecordsOf(e, environment_revisions')
                                 = RecordsOf(e, environment_revisions)]_vars

\* two calls, one to staging and one to production, have both written their
\* revision document and neither has saved its environment yet
C22_Witness ==
    \E q1, q2 \in deploy_requests :
        /\ q1.environment_name = "staging" /\ q2.environment_name = "production"
        /\ q1.pc = "environment_db.save" /\ q2.pc = "environment_db.save"
        /\ \E r1, r2 \in environment_revisions :
               /\ r1.environment = q1.environment_db.id
               /\ r2.environment = q2.environment_db.id
               /\ r1.revision = 1 /\ r2.revision = 1


\* the highest-numbered EnvironmentRevision record of an environment
TopRecord(e, revisions) ==
    CHOOSE top \in RecordsOf(e, revisions) :
        \A r \in RecordsOf(e, revisions) : r.revision <= top.revision

\* C31: a revert breaks what deploy guarantees, and the next deploy restores
\* it.  A successful revert to a record of E whose deployed variant revision
\* is not the one of E's highest-numbered record leaves E's live pointer
\* different from that of the highest-numbered record; a successful deploy to
\* E, made in any state (so also after such a revert), leaves E's live pointer
\* equal to the deployed variant revision of E's highest-numbered record.
C31_RevertBreaksDeployRestores ==
    /\ \A id \in EnvironmentRevisionIdInputs :
          LET X == fetch_app_environment_revision(id)
              out == revert_deployment_revision(id)
          IN  out.status = "200" =>
                  \A e \in environments :
                      (/\ e.id = X.environment
                       /\ TopRecord(e, environment_revisions).deployed_app_variant_revision
                              # X.deployed_app_variant_revision) =>
                          \A e2 \in out.environments :
                              e2.id = e.id =>
                                  e2.deployed_app_variant_revision #
                                      TopRecord(e, environment_revisions)
                                          .deployed_app_variant_revision
    /\ \A r \in DeployInputs :
          LET out == deploy_to_environment(r.environment_name, r.variant_id,
                                           r.deployment)
          IN  out.raised = "" =>
                  \A e2 \in out.environments :
                      e2.name = r.environment_name =>
                          /\ RecordsOf(e2, out.environment_revisions) # {}
                          /\ e2.deployed_app_variant_revision =
                                 TopRecord(e2, out.environment_revisions)
                                     .deployed_app_variant_revision
                          /\ TopRecord(e2, out.environment_revisions).revision
                                 = e2.revision

\* the trace of the claim: E was deployed to with revision a, then with
\* revision b, then reverted to its first record; it points at a while its
\* highest-numbered record holds b
C31_Witness ==
    \E e \in environments :
    \E first, second \in RecordsOf(e, environment_revisions) :
        /\ first.revision = 1 /\ second.revision = 2
        /\ second = TopRecord(e, environment_revisions)
        /\ first.deployed_app_variant_revision # second.deployed_app_variant_revision
        /\ e.deployed_app_variant_revision = first.deployed_app_variant_revision
        /\ \E r \in DeployRequests :
               deploy_to_environment(r.environment_name, r.variant_id,
                                     r.deployment).raised = ""
                   /\ r.environment_name = e.name


\* C32: deploy_to_environment called with an id that matches no variant
\* raises ValueError and writes nothing; called for a stored variant with an
\* environment name its application does not have, it raises ValueError and
\* writes nothing.
C32_DeployRejectsUnknownVariantAndEnvironment ==
    \A r \in DeployInputs :
        LET out == deploy_to_environment(r.environment_name, r.variant_id,
                                         r.deployment)
            app_variant_db == fetch_app_variant_by_id(r.variant_id)
            nothing_written ==
                /\ out.environments = environments
                /\ out.environment_revisions = environment_revisions
        IN  /\ app_variant_db = None =>
                   out.raised = "ValueError" /\ nothing_written
            /\ (/\ app_variant_db # None
                /\ fetch_app_variant_revision_by_variant(
                       r.variant_id, app_variant_db.revision).raised = ""
                /\ find_environment(app_variant_db.app, r.environment_name) = None) =>
                   out.raised = "ValueError" /\ nothing_written


\* C34: remove_app_testsets deletes every testset of the app and returns the
\* number deleted: whatever the number of testsets the app owned, none of
\* them remains after the call, the testsets of other apps remain, and the
\* number returned is the number the app owned.
C34_RemoveAppTestsetsRemovesAll ==
    \A app_id \in TestsetAppIdInputs :
        LET out == remove_app_testsets(app_id)
        IN  /\ \A i \in 1..Len(out.testsets) : out.testsets[i].app # app_id
            /\ out.deleted_count = Len(TestsetsOfApp(app_id))
            /\ out.testsets = SelectSeq(testsets, LAMBDA t : t.app # app_id)


\* C33: evaluate raises the "Evaluation method not found" ValueError for
\* every key that does not name one of the seven scoring functions, also for
\* keys that name other symbols of the module such as evaluate, json or
\* logger.
C33_UnknownEvaluatorKeyIsValueError ==
    (evaluation # None /\ evaluation.evaluator_key \notin ScoringFunctions) =>
        evaluation.outcome.raised = "ValueError"


\* C35: pointer consistency.  In every reachable state, also after a variant
\* was removed with remove_app_variant_from_db, the deployed variant revision
\* an environment points to, if it points to one, is a stored VariantRevision.
C35_PointersReferToStoredRevisions ==
    \A e \in environments :
        e.deployed_app_variant_revision # None =>
            \E r \in variant_revisions : r.id = e.deployed_app_variant_revision

\* C36: removing a variant clears the deployed-variant field of the
\* environments that deploy that variant and of no other: an environment of
\* the same app that deploys another variant keeps its field.
C36_RemovalClearsOnlyItsEnvironments ==
    \A app_variant_db \in variants :
        LET out == remove_app_variant_from_db(app_variant_db)
        IN  \A e \in environments :
                IF e.deployed_app_variant = app_variant_db.id
                THEN [e EXCEPT !.deployed_app_variant = None] \in out.environments
                ELSE e \in out.environments


\* C40: a revert to an EnvironmentRevision whose deployed variant revision is
\* no longer stored (its variant was removed) fails, and leaves every
\* environment, so the live pointer and the counter of the one reverted, as
\* it was.
C40_RevertToRemovedRevisionFails ==
    \A X \in environment_revisions :
        (X.deployed_app_variant_revision # None /\ ~TargetStored(X)) =>
            LET out == revert_deployment_revision(X.id)
            IN  /\ out.status # "200"
                /\ out.environments = environments

\* a record of an environment that was deployed to again since, whose own
\* variant revision was removed: the revert to it is refused
C40_Witness ==
    \E X \in environment_revisions : \E e \in environments :
        /\ X.environment = e.id
        /\ X.deployed_app_variant_revision # None
        /\ ~TargetStored(X)
        /\ e.deployed_app_variant_revision # X.deployed_app_variant_revision
        /\ e.revision > X.revision
        /\ revert_deployment_revision(X.id).status = "500"


\* C39: frame of the core operations.  A save_config step changes no
\* environment and no EnvironmentRevision; a deploy or revert step changes no
\* variant and no VariantRevision; a deploy to, or a revert of, environment E
\* leaves every other environment as it was and keeps every EnvironmentRevision
\* that exists.
C39_CoreOperationsFrame ==
    /\ [](/\ \A r \in DeployInputs :
                LET out == deploy_to_environment(r.environment_name, r.variant_id,
                                                 r.deployment)
                IN  /\ \A e \in environments :
                           e.name # r.environment_name => e \in out.environments
                    /\ environment_revisions \subseteq out.environment_revisions
                    /\ Cardinality(out.environments) = Cardinality(environments)
          /\ \A id \in EnvironmentRevisionIdInputs :
                LET X == fetch_app_environment_revision(id)
                    out == revert_deployment_revision(id)
                IN  /\ X = None => out.environments = environments
                    /\ X # None =>
                           \A e \in environments :
                               e.id # X.environment => e \in out.environments
                    /\ Cardinality(out.environments) = Cardinality(environments))
    /\ [][/\ SaveConfig =>
                UNCHANGED <<environments, environment_revisions>>
          /\ (Deploy \/ Revert) =>
                UNCHANGED <<variants, variant_revisions>>
          /\ Revert => UNCHANGED environment_revisions
          /\ Deploy => environment_revisions \subseteq environment_revisions']_vars

\* saves and deploys have been made: a variant was saved in place and two
\* environments were each deployed to
C39_Witness ==
    \E e1, e2 \in environments : \E v \in variants :
        /\ e1.name = "staging" /\ e2.name = "production"
        /\ e1.revision = 1 /\ e2.revision = 1
        /\ v.revision >= 1
        /\ e1.deployed_app_variant = v.id


\* C37: a revert that interleaves with a deploy to the same environment never
\* undoes the deploy's increment of the counter: once both have completed the
\* environment's revision counter is not lower than the highest revision
\* number of its EnvironmentRevision records.
C37_RevertKeepsCounter ==
    (deploy_requests = {} /\ revert_requests = {}) =>
        \A e \in environments :
            \A r \in RecordsOf(e, environment_revisions) : r.revision <= e.revision


\* C38: a deploy that interleaves with an in-place save_config of the same
\* variant always succeeds and pins the revision current before the save or
\* the one the save creates.  While a save of variant v is between its two
\* writes, a deploy of v is such a deploy.
C38_DeployDuringSaveSucceeds ==
    \A q \in save_requests :
        q.pc = "variant_revision.save" =>
            LET out == deploy_to_environment("staging", q.app_variant_db.id,
                                             <<"dep1">>)
            IN  /\ out.raised = ""
                /\ \E e \in out.environments : \E r \in variant_revisions :
                      /\ e.name = "staging"
                      /\ r.id = e.deployed_app_variant_revision
                      /\ r.variant = q.app_variant_db.id
                      /\ r.revision \in {q.app_variant_db.revision,
                                         q.app_variant_db.revision + 1}

====
